---- MODULE Spec2Model ----
(***************************************************************************)
(* pm-mem: the memory bank (src/memory/bank.py), the Refine editor        *)
(* (src/memory/editor.py), the JSON persistence (src/memory/persistence.py)*)
(* and the Think/Refine/Act agent (src/agent/remem_agent.py).             *)
(*                                                                         *)
(* Indices are the 0-based indices of the Python code; At(s, i) reads the  *)
(* element a Python list holds at index i.  A memory entry keeps its id,   *)
(* its x text (a sequence of segments, merge joins them with "---"), its   *)
(* tag and its timestamp; y and feedback follow x through every operation  *)
(* and are not kept.                                                       *)
(***************************************************************************)
EXTENDS Integers, Sequences, FiniteSets, TLC

\* ---------------------------------------------------------------- bounds
MaxCap == 3          \* largest max_entries a bank is constructed with
MaxId == 4           \* no entry is created with an id above MaxId, and the
                     \* last id is left to a merge or a Refine command
MaxIter == 2         \* largest max_iterations an agent is constructed with
MaxItems == 3        \* most items of the "results" list of a retrieval reply
MaxCalls == 4        \* most calls of save and load by the owner, and writes of
                     \* the file by others, in one behaviour
TestMaxEntries == 10 \* the capacity of the bank the unit tests build
MaxAdds == 11        \* most entries ever added to a bank of that capacity
MaxThreshold == 2    \* largest failure_threshold of a circuit breaker
MaxHalfOpen == 2     \* largest half_open_max_requests of a circuit breaker
FailureWindow == 2   \* failure_window of every circuit breaker, in clock ticks
MaxRetries == 2      \* largest max_retries of a retry manager
MaxBreakerCalls == 4 \* most calls through a circuit breaker in one behaviour
MaxTicks == 3        \* how far the clock runs
MaxKeys == 3         \* most API keys ever generated by a key manager
MaxGrace == 2        \* largest grace_period, and largest expires_in, in ticks
MaxMachineIter == 7  \* largest max_iterations a state machine is built with
MaxSeconds == 62     \* how long a state machine is watched, in seconds
MaxInstances == 3    \* LLM clients constructed by the factories
MaxIdx == 1          \* largest index in a formatted delta
MaxList == 2         \* largest number of indices or pairs in a formatted delta
MaxPatch == 2        \* largest patch number of a template version
MaxContent == 2      \* distinct template contents
MaxDays == 9         \* how long a backups directory is watched, in days

VARIABLES
  entries,           \* MemoryBank.entries
  max_entries,       \* MemoryBank.max_entries
  nextId,            \* the number of entries created so far, plus one: the next
                     \* fresh uuid4, and the reading of datetime.utcnow()
  lastOp,            \* history: the last bank operation, its input and outcome
  pc,                \* run_task: "idle", "running", "returned", "raised"
  task_input,        \* run_task's argument: "" or "task"
  max_iterations,    \* ReMemAgent.max_iterations
  iteration,         \* the loop variable of run_task
  traces,            \* run_task's traces
  retrieved,         \* retrieved_memories of the current iteration
  result,            \* the record run_task returned
  allThink,          \* history: every action selection so far answered think
  entries0,          \* history: the bank when run_task was called
  target,            \* the persistence file (self.filepath)
  tmp,               \* the sibling file self.filepath + ".tmp"
  latest_backup,     \* the newest file of backups/
  savePc,            \* MemoryPersistence.save: "idle" or the step it is at
  saveOld,           \* history: the target when save was last called, until
                     \* the file is next loaded or written by another
  saveNew,           \* history: the document that save was writing
  ioRet,             \* history: what the last load/save call returned or raised
  ioCalls,           \* history: the owner's save and load calls and the writes
                     \* of the file by others so far
  now,               \* the reading of time.time(), in ticks
  breaker,           \* a CircuitBreaker: its config and its fields
  reset_threads,     \* the reset_circuit threads asleep: the times they wake at
  breakerLog,        \* history: the last call through the breaker, and counts
                     \* of what it let through
  retry_run,         \* a call of RetryManager.retry: its config, its loop
                     \* variables and how it ended
  keys_cache,        \* APIKeyManager._keys_cache: key id -> APIKeyInfo
  keys_made,         \* the number of key ids generated so far
  expire_threads,    \* the _expire_old_key threads asleep: key id, waking time
  rotations,         \* history: when and with what grace_period each key was
                     \* rotated away from
  machine,           \* a StateMachine: max_iterations, whether current_state
                     \* is set, its iteration, history, start_time and
                     \* total_transitions
  machineLog,        \* history: the last call of transition, the machine it
                     \* found and whether it raised
  instances,         \* LLMFactory._instances, the cache all factories share:
                     \* the client stored under each cache key
  llm_made,          \* the number of LLM clients constructed so far
  fallbacks,         \* history: the Mock substituted under each cache key
                     \* since the cache was last cleared
  factoryLog,        \* history: the last create_llm call and what it did
  round_trip,        \* a delta, the command string format_command gives for
                     \* it and what parse_command reads back
  template,          \* a Template: the content stored under each version and
                     \* current_version
  templateLog,       \* history: the last update_template call, the versions
                     \* it found and what it returned
  backup_files,      \* the files of the backups directory: the timestamp in
                     \* each name and the file's modification time, in days
  file_mtime,        \* the modification time of the memory file, 0 if absent
  backupLog          \* history: the last save, when it ran and whether it
                     \* overwrote a file

bankVars == <<entries, max_entries, nextId, lastOp>>
agentVars == <<pc, task_input, max_iterations, iteration, traces, retrieved,
               result, allThink, entries0>>
fileVars == <<target, tmp, latest_backup, savePc, saveOld, saveNew, ioRet,
              ioCalls>>
llmVars == <<now, breaker, reset_threads, breakerLog, retry_run>>
keyVars == <<keys_cache, keys_made, expire_threads, rotations>>
memoryVars == <<bankVars, agentVars, fileVars>>
machineVars == <<machine, machineLog>>
factoryVars == <<instances, llm_made, fallbacks, factoryLog>>
templateVars == <<template, templateLog>>
backupVars == <<backup_files, file_mtime, backupLog>>
toolVars == <<machineVars, factoryVars, round_trip, templateVars, backupVars>>
vars == <<bankVars, agentVars, fileVars, llmVars, keyVars, toolVars>>

\* ------------------------------------------------------- Python list helpers
At(s, i) == s[i + 1]
InRange(s, i) == 0 <= i /\ i < Len(s)
\* del s[i]
DelAt(s, i) == [k \in 1..(Len(s) - 1) |-> IF k <= i THEN s[k] ELSE s[k + 1]]
\* s[i] = v
SetAt(s, i, v) == [s EXCEPT ![i + 1] = v]
Max2(a, b) == IF a >= b THEN a ELSE b
Min2(a, b) == IF a <= b THEN a ELSE b
Range(s) == {s[k] : k \in 1..Len(s)}
Ids(s) == {s[k].id : k \in 1..Len(s)}

\* list.sort(key=lambda e: e.timestamp): stable, ascending
RECURSIVE InsertByTs(_, _)
InsertByTs(sorted, e) ==
  IF sorted = <<>> THEN <<e>>
  ELSE IF sorted[Len(sorted)].ts <= e.ts THEN Append(sorted, e)
  ELSE Append(InsertByTs(SubSeq(sorted, 1, Len(sorted) - 1), e), sorted[Len(sorted)])

RECURSIVE SortByTs(_)
SortByTs(s) ==
  IF s = <<>> THEN <<>>
  ELSE InsertByTs(SortByTs(SubSeq(s, 1, Len(s) - 1)), s[Len(s)])

\* sorted(indices, reverse=True)
RECURSIVE InsertDesc(_, _)
InsertDesc(sorted, n) ==
  IF sorted = <<>> THEN <<n>>
  ELSE IF sorted[Len(sorted)] >= n THEN Append(sorted, n)
  ELSE Append(InsertDesc(SubSeq(sorted, 1, Len(sorted) - 1), n), sorted[Len(sorted)])

RECURSIVE SortDesc(_)
SortDesc(s) ==
  IF s = <<>> THEN <<>>
  ELSE InsertDesc(SortDesc(SubSeq(s, 1, Len(s) - 1)), s[Len(s)])

\* ------------------------------------------------------------- MemoryEntry
MemoryEntry(id, x, tag, ts) == [id |-> id, x |-> x, tag |-> tag, ts |-> ts]

\* --------------------------------------------------------------- MemoryBank
\* Every bank operation is an operator from the entry list to
\* [entries |-> the list afterwards, raised |-> whether the call raised].
Ok(es) == [entries |-> es, raised |-> FALSE]
Raise(es) == [entries |-> es, raised |-> TRUE]

\* MemoryBank.add: at capacity, sort by timestamp and pop the oldest entry
BankAdd(es, cap, e) ==
  IF Len(es) >= cap
  THEN IF es = <<>> THEN Raise(es)
       ELSE Ok(Append(Tail(SortByTs(es)), e))
  ELSE Ok(Append(es, e))

\* the deletion loop of MemoryBank.delete over sorted(valid_indices, reverse=True)
RECURSIVE DeleteLoop(_, _)
DeleteLoop(es, idxs) ==
  IF idxs = <<>> THEN Ok(es)
  ELSE IF ~InRange(es, Head(idxs)) THEN Raise(es)
  ELSE DeleteLoop(DelAt(es, Head(idxs)), Tail(idxs))

\* MemoryBank.delete
BankDelete(es, indices) ==
  IF indices = <<>> THEN Ok(es)
  ELSE IF \E k \in 1..Len(indices) : ~InRange(es, indices[k]) THEN Raise(es)
  ELSE DeleteLoop(es, SortDesc(indices))

\* the entry MemoryBank.merge builds from e1 and e2
MergedEntry(e1, e2, id) ==
  MemoryEntry(id, e1.x \o e2.x, "merged", Max2(e1.ts, e2.ts))

\* MemoryBank.merge
BankMerge(es, idx1, idx2, id) ==
  IF ~(InRange(es, idx1) /\ InRange(es, idx2)) THEN Raise(es)
  ELSE IF idx1 = idx2 THEN Raise(es)
  ELSE LET replaced == SetAt(es, idx1, MergedEntry(At(es, idx1), At(es, idx2), id))
       IN IF idx2 > idx1 THEN Ok(DelAt(replaced, idx2))
          ELSE IF InRange(replaced, idx1 + 1) THEN Ok(DelAt(replaced, idx1 + 1))
          ELSE Raise(replaced)

\* MemoryBank.relabel
BankRelabel(es, idx, new_tag) ==
  IF ~InRange(es, idx) THEN Raise(es)
  ELSE IF new_tag = "" THEN Raise(es)
  ELSE Ok(SetAt(es, idx, [At(es, idx) EXCEPT !.tag = new_tag]))

\* MemoryBank._prune
BankPrune(es, cap) ==
  IF Len(es) <= cap THEN es
  ELSE LET byFifth == Len(es) \div 5
           delete_count == Max2(1, Min2(byFifth, Len(es) - cap))
       IN SubSeq(SortByTs(es), delete_count + 1, Len(es))

\* ------------------------------------------------------------ RefineEditor
\* A Refine command is the sequence of its ';'-separated non-blank segments.
\* A segment is one of
\*   [op |-> "DELETE", indices |-> a sequence of naturals]
\*   [op |-> "ADD", text |-> "" or a text]
\*   [op |-> "MERGE", idx1 |-> n, idx2 |-> m]
\*   [op |-> "RELABEL", idx |-> n, tag |-> a tag]
\*   [op |-> "DELETE?"]   "DELETE " followed by something that is no index list
\*   [op |-> "OTHER"]     a segment that starts with none of the four keywords
EmptyDelta == [delete |-> <<>>, add |-> <<>>, merge |-> <<>>, relabel |-> <<>>]

HasDuplicates(s) == \E i, j \in 1..Len(s) : i # j /\ s[i] = s[j]

\* RefineEditor._parse_segment and the four _parse_*_enhanced: the segment's
\* contribution to the delta, the empty delta for a segment that is skipped
ParseSegment(seg) ==
  CASE seg.op = "DELETE" ->
         IF seg.indices = <<>> \/ HasDuplicates(seg.indices) THEN EmptyDelta
         ELSE [EmptyDelta EXCEPT !.delete = seg.indices]
    [] seg.op = "ADD" ->
         IF seg.text = "" THEN EmptyDelta
         ELSE [EmptyDelta EXCEPT !.add = <<seg.text>>]
    [] seg.op = "MERGE" ->
         IF seg.idx1 = seg.idx2 THEN EmptyDelta
         ELSE [EmptyDelta EXCEPT !.merge = << <<seg.idx1, seg.idx2>> >>]
    [] seg.op = "RELABEL" ->
         IF seg.tag = "" THEN EmptyDelta
         ELSE [EmptyDelta EXCEPT !.relabel = << <<seg.idx, seg.tag>> >>]
    [] OTHER -> EmptyDelta

\* RefineEditor.parse_command
RECURSIVE parse_command(_)
parse_command(cmd) ==
  IF cmd = <<>> THEN EmptyDelta
  ELSE LET rest == parse_command(SubSeq(cmd, 1, Len(cmd) - 1))
           d == ParseSegment(cmd[Len(cmd)])
       IN [delete |-> rest.delete \o d.delete,
           add |-> rest.add \o d.add,
           merge |-> rest.merge \o d.merge,
           relabel |-> rest.relabel \o d.relabel]

\* ----------------------------------------------------- ReMemAgent: Refine
\* ReMemAgent._validate_refine_command
validate_refine_command(cmd) ==
  /\ cmd # <<>>
  /\ \A k \in 1..Len(cmd) : cmd[k].op # "OTHER"

\* ReMemAgent._validate_refine_delta: parse_command always returns the four lists
validate_refine_delta(delta) ==
  DOMAIN delta = {"delete", "add", "merge", "relabel"}

\* _validate_indices without its last loop: the relabel indices go unchecked
validate_indices_no_relabel(delta, es) ==
  LET max_index == Len(es) - 1
      ok(i) == 0 <= i /\ i <= max_index
  IN /\ \A k \in 1..Len(delta.delete) : ok(delta.delete[k])
     /\ \A k \in 1..Len(delta.merge) :
          /\ ok(delta.merge[k][1]) /\ ok(delta.merge[k][2])
          /\ delta.merge[k][1] # delta.merge[k][2]

\* ReMemAgent._validate_indices
validate_indices(delta, es) ==
  LET max_index == Len(es) - 1
      ok(i) == 0 <= i /\ i <= max_index
  IN /\ \A k \in 1..Len(delta.delete) : ok(delta.delete[k])
     /\ \A k \in 1..Len(delta.merge) :
          /\ ok(delta.merge[k][1]) /\ ok(delta.merge[k][2])
          /\ delta.merge[k][1] # delta.merge[k][2]
     /\ \A k \in 1..Len(delta.relabel) : ok(delta.relabel[k][1])

\* ReMemAgent._refine: reply is [kind |-> "raise"] or [kind |-> "text", cmd |-> c];
\* the result is the delta and the trace entry (raw_cmd)
NoOp(trace) == [delta |-> EmptyDelta, trace |-> trace, raised |-> FALSE]

\* "except Exception as e: ... return {...}, f'Refine异常: {str(e)}'" of _refine
RefineExcept == NoOp("Refine exception")

Refine(task, es, reply) ==
  IF task = "" THEN NoOp("Refine: invalid input")
  ELSE IF es = <<>> THEN NoOp("Refine: bank empty")
  ELSE IF reply.kind = "raise" THEN RefineExcept
  ELSE IF reply.cmd = <<>> THEN NoOp("Refine: empty command")
  ELSE IF ~validate_refine_command(reply.cmd) THEN NoOp("Refine: format invalid")
  ELSE LET delta == parse_command(reply.cmd)
       IN IF ~validate_refine_delta(delta) THEN NoOp("Refine: parse failed")
          ELSE IF ~validate_indices(delta, es) THEN NoOp("Refine: index invalid")
          ELSE [delta |-> delta, trace |-> "cmd", raised |-> FALSE]

\* ReMemAgent._adjust_index; None is -1
adjust_index(idx, deleted_indices) ==
  IF \E k \in 1..Len(deleted_indices) : deleted_indices[k] = idx THEN -1
  ELSE idx - Cardinality({k \in 1..Len(deleted_indices) : deleted_indices[k] < idx})

\* The bank state _apply_delta works on: the entries, the uuid and clock supply
BankState(es, id) == [entries |-> es, nextId |-> id]

\* the ADD loop of _apply_delta; an add that raises ends the whole _apply_delta
RECURSIVE ApplyAdds(_, _, _)
ApplyAdds(st, cap, texts) ==
  IF texts = <<>> THEN [st |-> st, raised |-> FALSE]
  ELSE LET r == BankAdd(st.entries, cap,
                        MemoryEntry(st.nextId, <<"refine-added">>, "refine", st.nextId))
       IN IF r.raised THEN [st |-> st, raised |-> TRUE]
          ELSE ApplyAdds(BankState(r.entries, st.nextId + 1), cap, Tail(texts))

\* the MERGE loop of _apply_delta; a merge that raises is logged and skipped
RECURSIVE ApplyMerges(_, _, _)
ApplyMerges(st, pairs, deleted) ==
  IF pairs = <<>> THEN st
  ELSE LET a1 == adjust_index(Head(pairs)[1], deleted)
           a2 == adjust_index(Head(pairs)[2], deleted)
           r == BankMerge(st.entries, a1, a2, st.nextId)
           next == IF a1 # -1 /\ a2 # -1 /\ r.entries # st.entries
                   THEN BankState(r.entries, st.nextId + 1)
                   ELSE st
       IN ApplyMerges(next, Tail(pairs), deleted)

\* the RELABEL loop of _apply_delta; a relabel that raises is logged and skipped
RECURSIVE ApplyRelabels(_, _, _)
ApplyRelabels(st, relabels, deleted) ==
  IF relabels = <<>> THEN st
  ELSE LET a == adjust_index(Head(relabels)[1], deleted)
           r == BankRelabel(st.entries, a, Head(relabels)[2])
           next == IF a # -1 THEN [st EXCEPT !.entries = r.entries] ELSE st
       IN ApplyRelabels(next, Tail(relabels), deleted)

\* ReMemAgent._apply_delta: delete, add, merge, relabel; an exception of the
\* delete or of an add ends it where it is and is logged
apply_delta(st, cap, delta) ==
  LET del == BankDelete(st.entries, SortDesc(delta.delete))
      afterDel == [st EXCEPT !.entries = del.entries]
      adds == ApplyAdds(afterDel, cap, delta.add)
  IN IF del.raised THEN afterDel
     ELSE IF adds.raised THEN adds.st
     ELSE ApplyRelabels(ApplyMerges(adds.st, delta.merge, delta.delete),
                        delta.relabel, delta.delete)

\* -------------------------------------------------------- MemoryPersistence
DefaultMaxEntries == 1000
SUPPORTED_VERSIONS == {"1.0.0", "0.9.0", "0.8.0"}
FORMAT_VERSION == "1.0.0"

\* What a file holds.  "partial" is a file opened for writing whose document
\* is not written to its end; "garbage" is text that is no JSON; "nondict" is
\* JSON that is no object; "unreadable" is a file open() refuses.
Absent == [kind |-> "absent"]
Partial == [kind |-> "partial"]
Garbage == [kind |-> "garbage"]
NonDict == [kind |-> "nondict"]
Unreadable == [kind |-> "unreadable"]
Doc(version, cap, es, checksum_ok) ==
  [kind |-> "doc", version |-> version, max_entries |-> cap, entries |-> es,
   checksum_ok |-> checksum_ok]

\* the data dictionary save builds from the bank
SaveDoc(es, cap) == Doc(FORMAT_VERSION, cap, es, TRUE)

FileState(t, tm, b) == [target |-> t, tmp |-> tm, latest_backup |-> b]

\* MemoryPersistence._create_backup, called when the target exists: copy2 of
\* the target into backups/; a failure is logged and save goes on
StepBackup(fs, ok) ==
  IF fs.target.kind # "absent" /\ ok
  THEN [fs EXCEPT !.latest_backup = fs.target]
  ELSE fs

\* open(self.filepath, "w"): a save that writes the target in place
StepOpen_in_place(fs) == [fs EXCEPT !.target = Partial]

\* open(temp_filepath, "w"): the temporary file exists and is empty
StepOpen(fs) == [fs EXCEPT !.tmp = Partial]

\* json.dump(data, f) run to its end, and the file closed
StepWrite(fs, doc) == [fs EXCEPT !.tmp = doc]

\* os.replace(temp_filepath, self.filepath)
StepReplace(fs) == [fs EXCEPT !.target = fs.tmp, !.tmp = Absent]

\* "except Exception as e: ... return False" of save
SaveExcept == [ret |-> FALSE, raised |-> FALSE]

\* MemoryPersistence.save from its first to its last line.  failAt names the
\* step that raises: "none", "backup", "open", "write" or "replace"; the result
\* is the files afterwards, the value returned and whether the call raised
SaveAll(fs, doc, failAt) ==
  LET f1 == StepBackup(fs, failAt # "backup")
      f2 == StepOpen(f1)
      f3 == StepWrite(f2, doc)
      f4 == StepReplace(f3)
  IN CASE failAt = "open" -> [fs |-> f1] @@ SaveExcept
       [] failAt = "write" -> [fs |-> f2] @@ SaveExcept
       [] failAt = "replace" -> [fs |-> f3] @@ SaveExcept
       [] OTHER -> [fs |-> f4, ret |-> TRUE, raised |-> FALSE]

\* A bank as load sees it: None, or the object with its entries and capacity
NoBank == [some |-> FALSE, entries |-> <<>>, max_entries |-> DefaultMaxEntries]
SomeBank(es, cap) == [some |-> TRUE, entries |-> es, max_entries |-> cap]

\* What load returns: the bank returned, whether it is the object supplied,
\* the supplied object afterwards, and whether the call raised
LoadResult(ret, same, supplied, raised) ==
  [bank |-> ret, same |-> same, supplied |-> supplied, raised |-> raised]

\* "memory_bank or MemoryBank()": a bank of no entries is falsy (__len__)
BankOrNew(mb) ==
  IF mb.some /\ mb.entries # <<>>
  THEN LoadResult(mb, TRUE, mb, FALSE)
  ELSE LoadResult(SomeBank(<<>>, DefaultMaxEntries), FALSE, mb, FALSE)

\* MemoryPersistence._load_with_compatibility
load_with_compatibility(data, mb) ==
  IF data.kind # "doc" THEN BankOrNew(mb)
  ELSE LET loaded == SomeBank(data.entries, data.max_entries)
       IN LoadResult(loaded, mb.some, IF mb.some THEN loaded ELSE mb, FALSE)

\* MemoryPersistence._recover_from_backup
recover_from_backup(backup, mb) ==
  IF backup.kind = "absent" THEN BankOrNew(mb)
  ELSE IF backup.kind \in {"partial", "garbage", "unreadable"} THEN BankOrNew(mb)
  ELSE load_with_compatibility(backup, mb)

\* the two loops of load over entries_data: add every entry (a new bank) or
\* every entry whose id the bank does not hold yet (a supplied bank)
RECURSIVE LoadEntries(_, _, _, _)
LoadEntries(es, cap, entries_data, dedupe) ==
  IF entries_data = <<>> THEN es
  ELSE LET e == Head(entries_data)
           r == BankAdd(es, cap, e)
       IN IF dedupe /\ e.id \in Ids(es)
          THEN LoadEntries(es, cap, Tail(entries_data), dedupe)
          ELSE LoadEntries(r.entries, cap, Tail(entries_data), dedupe)

\* the try block of load: exc is "none" and res the value returned, or exc is
\* the exception the block raised
LoadTry(fs, mb) ==
  CASE fs.target.kind = "unreadable" -> [exc |-> "OSError"]
    [] fs.target.kind \in {"partial", "garbage"} -> [exc |-> "JSONDecodeError"]
    [] fs.target.kind = "nondict" -> [exc |-> "AttributeError"]
    [] OTHER ->
         LET data == fs.target
             es == LoadEntries(mb.entries, data.max_entries, data.entries, mb.some)
             loaded == SomeBank(es, data.max_entries)
         IN [exc |-> "none",
             res |-> IF data.version \notin SUPPORTED_VERSIONS
                     THEN load_with_compatibility(data, mb)
                     ELSE IF ~data.checksum_ok
                     THEN recover_from_backup(fs.latest_backup, mb)
                     ELSE LoadResult(loaded, mb.some,
                                     IF mb.some THEN loaded ELSE mb, FALSE)]

\* load without its last except clause: the exception reaches the caller
LoadExcept_reraise(exc, mb) == LoadResult(mb, FALSE, mb, TRUE)

\* "except Exception as e: ... return memory_bank or MemoryBank()" of load
LoadExcept(exc, mb) == BankOrNew(mb)

\* MemoryPersistence.load
Load(fs, mb) ==
  IF fs.target.kind = "absent" THEN BankOrNew(mb)
  ELSE LET t == LoadTry(fs, mb)
       IN IF t.exc = "none" THEN t.res
          ELSE IF t.exc = "JSONDecodeError"
          THEN recover_from_backup(fs.latest_backup, mb)
          ELSE LoadExcept(t.exc, mb)

\* ------------------------------------------------------ MemoryBank.retrieve
retrieval_k == 2
FallbackScore == 50       \* relevance_score 0.5, in hundredths

\* RetrievalResult; it has the fields below and no to_text
RetrievalResult(e, score) ==
  [kind |-> "RetrievalResult", memory_entry |-> e, relevance_score |-> score]

\* a fallback that gives up: no result instead of the first entries
fallback_retrieval_empty(es, k) == <<>>

\* MemoryBank._fallback_retrieval
fallback_retrieval(es, k) ==
  [i \in 1..Min2(k, Len(es)) |-> RetrievalResult(es[i], FallbackScore)]

\* evaluations.sort(key=lambda x: x["score"], reverse=True): stable
RECURSIVE InsertByScore(_, _)
InsertByScore(sorted, ev) ==
  IF sorted = <<>> THEN <<ev>>
  ELSE IF sorted[Len(sorted)].score >= ev.score THEN Append(sorted, ev)
  ELSE Append(InsertByScore(SubSeq(sorted, 1, Len(sorted) - 1), ev), sorted[Len(sorted)])

\* retrieve without its sort: the evaluations stay in the order of the reply
SortByScore_unsorted(s) == s

RECURSIVE SortByScore(_)
SortByScore(s) ==
  IF s = <<>> THEN <<>>
  ELSE InsertByScore(SortByScore(SubSeq(s, 1, Len(s) - 1)), s[Len(s)])

\* the loop of retrieve over result_data["results"]: the items whose index is
\* in range, in the order of the reply
RECURSIVE Evaluations(_, _)
Evaluations(items, es) ==
  IF items = <<>> THEN <<>>
  ELSE LET rest == Evaluations(SubSeq(items, 1, Len(items) - 1), es)
           it == items[Len(items)]
       IN IF InRange(es, it.index) THEN Append(rest, it) ELSE rest

\* MemoryBank.retrieve with include_explanations left at True.  reply is what
\* the LLM call does: [kind |-> "raise"], [kind |-> "unparsable"] (no JSON),
\* [kind |-> "noresults"] (JSON without "results") or
\* [kind |-> "results", items |-> a sequence of [index |-> i, score |-> s]]
retrieve(es, k, reply) ==
  IF es = <<>> THEN <<>>
  ELSE IF k <= 0 THEN <<>>
  ELSE LET kk == Min2(k, Len(es))
       IN IF reply.kind # "results" THEN fallback_retrieval(es, kk)
          ELSE LET evaluations == SortByScore(Evaluations(reply.items, es))
                   top_k == SubSeq(evaluations, 1, Min2(kk, Len(evaluations)))
               IN [i \in 1..Len(top_k) |->
                     RetrievalResult(At(es, top_k[i].index), top_k[i].score)]

ScoreValues == {30, 70}
Items(es) == [index : 0..Len(es), score : ScoreValues]
\* what the LLM may do at a retrieval call: fail, or answer no item, one or two
ShortRetrievalReplies(es) ==
  {[kind |-> "raise"], [kind |-> "unparsable"], [kind |-> "noresults"]}
  \cup {[kind |-> "results", items |-> <<>>]}
  \cup {[kind |-> "results", items |-> <<a>>] : a \in Items(es)}

\* --------------------------------------------------------------- ReMemAgent
\* "\n".join([e.to_text() for e in retrieved_memories]) raises AttributeError
\* when a retrieved element has no to_text
ToTextRaises(rs) == \E k \in 1..Len(rs) : rs[k].kind = "RetrievalResult"

\* _select_action without its check of the action name
select_action_unchecked(reply) ==
  IF reply = "raise" THEN "act" ELSE reply

\* ReMemAgent._select_action: reply is the LLM's text, lower-cased and stripped,
\* or "raise" when the call raises
select_action(reply) ==
  IF reply = "raise" THEN "act"
  ELSE IF reply \notin {"think", "refine", "act"} THEN "act"
  ELSE reply
SelectReplies == {"think", "refine", "act", "other", "raise"}

\* ReMemAgent._think: the trace entry
Think(task, reply) ==
  IF task = "" THEN "Think: invalid input"
  ELSE IF reply = "raise" THEN "Think: error"
  ELSE IF reply = "" THEN "Think: empty"
  ELSE "Think: text"

\* ReMemAgent._act: the action text
Act(task, reply) ==
  IF task = "" THEN "Act: invalid input"
  ELSE IF reply = "raise" THEN "Act: error"
  ELSE IF reply = "" THEN "Act: empty"
  ELSE "Act: text"
TextReplies == {"raise", "", "text"}

\* ReMemAgent._add_new_memory
add_new_memory(st, cap, task) ==
  LET r == BankAdd(st.entries, cap, MemoryEntry(st.nextId, <<task>>, "task", st.nextId))
  IN IF r.raised THEN [st |-> st, raised |-> TRUE]
     ELSE [st |-> BankState(BankPrune(r.entries, cap), st.nextId + 1),
           raised |-> FALSE]

\* the record run_task returns
TaskResult(status, action, n, es, rs, tr) ==
  [status |-> status, action |-> action, iterations |-> n,
   memory_size |-> Len(es), retrieved_count |-> Len(rs), traces |-> tr]
NoResult == [status |-> "none"]

\* ------------------------------------------- llm/retry_mechanism.py
\* An exception is [type, status_code, by]: type is the class ("Exception" or
\* a subclass of it, "ValueError"), status_code is the attribute of that name
\* or 0 when there is none, by is "func" or "breaker" (the rejection raised by
\* the breaker's wrapper).
FuncExceptions ==
  {[type |-> t, status_code |-> c, by |-> "func"] :
     t \in {"Exception", "ValueError"}, c \in {0}}
  \cup {[type |-> "Exception", status_code |-> c, by |-> "func"] : c \in {404, 500}}
Rejected == [type |-> "Exception", status_code |-> 0, by |-> "breaker"]
NoException == [type |-> "none", status_code |-> 0, by |-> "none"]

\* what one invocation of the wrapped function does: it returns, or it raises
Outcomes == {[ok |-> TRUE, exc |-> NoException]}
            \cup {[ok |-> FALSE, exc |-> e] : e \in FuncExceptions}

\* RetryConfig: max_retries and retry_on_exceptions (a set of classes)
RetryConfig(max_retries, retry_on_exceptions) ==
  [max_retries |-> max_retries, retry_on_exceptions |-> retry_on_exceptions]

\* isinstance(exception, classes): every exception is an Exception
IsInstance(exception, classes) ==
  exception.type \in classes \/ "Exception" \in classes

\* should_retry without its check of the attempt number
should_retry_any_attempt(config, exception, attempt) ==
  /\ IsInstance(exception, config.retry_on_exceptions)
  /\ ~(exception.status_code # 0 /\ 400 <= exception.status_code
         /\ exception.status_code < 500)

\* RetryManager.should_retry
should_retry(config, exception, attempt) ==
  IF attempt >= config.max_retries THEN FALSE
  ELSE IF ~IsInstance(exception, config.retry_on_exceptions) THEN FALSE
  ELSE IF exception.status_code # 0 /\ 400 <= exception.status_code
            /\ exception.status_code < 500
  THEN FALSE
  ELSE TRUE

\* CircuitBreakerConfig
CircuitBreakerConfig(threshold, timeout, half_open_max, window) ==
  [failure_threshold |-> threshold, reset_timeout |-> timeout,
   half_open_max_requests |-> half_open_max, failure_window |-> window]

\* CircuitBreaker.__init__
CircuitBreaker(config) ==
  [config |-> config, state |-> "closed", failure_count |-> 0,
   success_count |-> 0, last_failure_time |-> 0, half_open_attempts |-> 0]

\* CircuitBreaker._reset
Reset(b) ==
  [b EXCEPT !.failure_count = 0, !.success_count = 0,
            !.half_open_attempts = 0, !.state = "closed"]

\* CircuitBreaker.record_failure at time t: the breaker afterwards, and whether
\* _schedule_reset started a thread
record_failure(b, t) ==
  LET counted == IF t - b.last_failure_time > b.config.failure_window
                 THEN 0 ELSE b.failure_count
      failure_count == counted + 1
      opens == failure_count >= b.config.failure_threshold /\ b.state # "open"
  IN [breaker |-> [b EXCEPT !.failure_count = failure_count,
                            !.last_failure_time = t,
                            !.state = IF opens THEN "open" ELSE @],
      scheduled |-> opens]

\* the largest value record_success lets success_count take in the Closed state
SuccessCountCap == 100

\* CircuitBreaker.record_success
record_success(b) ==
  IF b.state = "half_open"
  THEN LET b1 == [b EXCEPT !.success_count = @ + 1, !.half_open_attempts = @ + 1]
       IN IF b1.success_count >= b.config.half_open_max_requests
          THEN Reset(b1) ELSE b1
  ELSE IF b.state = "closed"
  THEN [b EXCEPT !.success_count = Min2(@ + 1, SuccessCountCap)]
  ELSE b

\* reset_circuit of _schedule_reset, once its sleep is over
reset_circuit(b) ==
  IF b.state = "open"
  THEN [b EXCEPT !.state = "half_open", !.half_open_attempts = 0]
  ELSE b

\* a breaker that lets every request through
is_request_allowed_always(b) == TRUE

\* CircuitBreaker.is_request_allowed
is_request_allowed(b) ==
  CASE b.state = "closed" -> TRUE
    [] b.state = "open" -> FALSE
    [] b.state = "half_open" ->
         b.half_open_attempts < b.config.half_open_max_requests
    [] OTHER -> FALSE

\* wrapper of CircuitBreaker.__call__ at time t, around a function that does
\* `outcome` when invoked: the breaker afterwards, whether a reset thread was
\* started, whether the function was invoked, and what the wrapper did
Wrapper(b, t, outcome) ==
  IF ~is_request_allowed(b)
  THEN [breaker |-> b, scheduled |-> FALSE, invoked |-> FALSE,
        did |-> [ok |-> FALSE, exc |-> Rejected]]
  ELSE IF outcome.ok
  THEN [breaker |-> record_success(b), scheduled |-> FALSE, invoked |-> TRUE,
        did |-> outcome]
  ELSE LET r == record_failure(b, t)
       IN [breaker |-> r.breaker, scheduled |-> r.scheduled, invoked |-> TRUE,
           did |-> outcome]

\* no call of RetryManager.retry is under way, none has been made
NoRetryRun ==
  [pc |-> "idle", config |-> RetryConfig(0, {"Exception"}), wrapped |-> FALSE,
   attempt |-> 0, invocations |-> 0, last_exception |-> NoException,
   last_thrown |-> NoException, raised |-> NoException]

\* the history of calls through the breaker, before any
NoBreakerLog ==
  [event |-> "none", before |-> "closed", invoked |-> FALSE,
   failed |-> FALSE, via |-> "none",
   failures_in_window |-> 0, half_open_allowed |-> 0,
   half_open_successes |-> 0, calls |-> 0]

\* the resilience layer of an LLM client nobody has called yet
LlmInit(config) ==
  /\ now = FailureWindow + 1
  /\ breaker = CircuitBreaker(config)
  /\ reset_threads = {}
  /\ breakerLog = NoBreakerLog
  /\ retry_run = NoRetryRun

\* ------------------------------------------- config/api_key_manager.py
\* Key ids are 1, 2, ...; an APIKeyInfo keeps status, created_at and expires_at
\* (0 for None); NoKey is an id the cache does not hold.
KeyIds == 1..MaxKeys
NoKey == [status |-> "absent", created_at |-> 0, expires_at |-> 0]
APIKeyInfo(status, created_at, expires_at) ==
  [status |-> status, created_at |-> created_at, expires_at |-> expires_at]

\* APIKeyManager.add_key at time t under the id _generate_key_id returned;
\* expires_in is 0 for None
add_key(cache, key_id, t, expires_in) ==
  [cache EXCEPT ![key_id] =
     APIKeyInfo("active", t, IF expires_in # 0 THEN t + expires_in ELSE 0)]

\* whether rotate_key starts a thread that expires the old key
SchedulesExpiry(grace_period) == grace_period > 0

\* an _expire_old_key thread that does not sleep
ExpiryWake_no_sleep(t, grace_period) == t

\* the time the _expire_old_key thread of a rotation at time t asks to wake at
ExpiryWake(t, grace_period) == t + grace_period

\* APIKeyManager.rotate_key at time t; new_key_id is the id generated for the
\* new key (the old key's own id when both are generated in one millisecond).
\* ret is the id returned, 0 for None.
rotate_key(cache, old_key_id, new_key_id, t, grace_period) ==
  IF cache[old_key_id] = NoKey
  THEN [cache |-> cache, ret |-> 0, generated |-> FALSE, scheduled |-> FALSE]
  ELSE LET old_key == cache[old_key_id]
           expires_in == IF old_key.expires_at # 0
                         THEN Max2(0, old_key.expires_at - t) ELSE 0
           added == add_key(cache, new_key_id, t, expires_in)
       IN IF new_key_id = old_key_id
          THEN [cache |-> added, ret |-> 0, generated |-> TRUE,
                scheduled |-> FALSE]
          ELSE [cache |-> [added EXCEPT ![old_key_id].status = "pending_refresh"],
                ret |-> new_key_id, generated |-> TRUE,
                scheduled |-> SchedulesExpiry(grace_period)]

\* _expire_old_key of rotate_key, once its sleep is over
expire_old_key(cache, old_key_id) ==
  IF cache[old_key_id] # NoKey
  THEN [cache EXCEPT ![old_key_id].status = "expired"]
  ELSE cache

\* APIKeyManager.get_key at time t: check_status is "none", "true" or "false";
\* found tells whether a key is returned
get_key(cache, key_id, t, update_usage, check_status) ==
  LET key_info == cache[key_id]
      check == IF check_status = "none" THEN update_usage
               ELSE check_status = "true"
      expired == key_info.expires_at # 0 /\ t > key_info.expires_at
  IN IF key_info = NoKey THEN [cache |-> cache, found |-> FALSE]
     ELSE IF check /\ key_info.status # "active"
     THEN [cache |-> cache, found |-> FALSE]
     ELSE IF expired
     THEN [cache |-> [cache EXCEPT ![key_id].status = "expired"],
           found |-> ~check]
     ELSE [cache |-> cache, found |-> TRUE]

\* APIKeyManager.delete_key
delete_key(cache, key_id) == [cache EXCEPT ![key_id] = NoKey]

\* APIKeyManager.update_key_status
update_key_status(cache, key_id, status) ==
  IF cache[key_id] = NoKey THEN cache
  ELSE [cache EXCEPT ![key_id].status = status]

\* a key that was never rotated away from
NoRotation == [at |-> 0, grace_period |-> 0, done |-> FALSE]

\* a key manager with an empty store
KeysInit ==
  /\ keys_cache = [k \in KeyIds |-> NoKey]
  /\ keys_made = 0
  /\ expire_threads = {}
  /\ rotations = [k \in KeyIds |-> NoRotation]

\* ------------------------------------------- agent/state_machine.py
\* the seconds after which should_terminate gives up
TerminationTimeout == 30
\* the number of identical last history records should_terminate calls a loop
LoopLength == 5

\* StateMachine.__init__; history is the sequence of the records' "action"
StateMachine(max_iter) ==
  [max_iterations |-> max_iter, initialized |-> FALSE, iteration |-> 0,
   history |-> <<>>, start_time |-> 0, total_transitions |-> 0]

\* StateMachine.initialize at time t
initialize(m, t) ==
  [m EXCEPT !.initialized = TRUE, !.iteration = 0,
            !.history = <<"initialize">>, !.start_time = t,
            !.total_transitions = 0]

\* StateMachine.reset
reset(m) ==
  [m EXCEPT !.initialized = FALSE, !.iteration = 0, !.history = <<>>,
            !.start_time = 0, !.total_transitions = 0]

\* should_terminate that only looks whether current_state is set
should_terminate_unset_only(m, t) == ~m.initialized

\* StateMachine.should_terminate at time t
should_terminate(m, t) ==
  IF ~m.initialized THEN TRUE
  ELSE IF m.iteration >= m.max_iterations THEN TRUE
  ELSE IF Len(m.history) > 1 /\ m.history[Len(m.history)] = "act" THEN TRUE
  ELSE IF m.start_time # 0 /\ t - m.start_time > TerminationTimeout THEN TRUE
  ELSE IF Len(m.history) >= LoopLength
          /\ \A k \in (Len(m.history) - LoopLength + 1)..Len(m.history) :
               m.history[k] = m.history[Len(m.history)]
  THEN TRUE
  ELSE FALSE

\* StateMachine.transition(action) at time t: an action that is none of the
\* three is replaced by act, and so is any action at the last iteration
transition(m, action, t) ==
  IF ~m.initialized THEN [machine |-> m, raised |-> TRUE]
  ELSE IF should_terminate(m, t) THEN [machine |-> m, raised |-> TRUE]
  ELSE LET forced == IF m.iteration >= m.max_iterations - 1 THEN "act" ELSE action
           taken == IF forced \in {"think", "refine", "act"} THEN forced ELSE "act"
       IN [machine |-> [m EXCEPT !.iteration = @ + 1,
                                 !.history = Append(@, taken),
                                 !.total_transitions = @ + 1],
           raised |-> FALSE]

\* ----------------------------------------------- llm/llm_factory.py
\* provider and environment names as their parts between underscores; the
\* last provider is none of LLMProvider
Providers == {<<"deepseek">>, <<"mock">>, <<"deterministic">>}
RealProviders == {<<"deepseek">>}
Environments == {<<"testing">>}
\* the keyword arguments of a call, as sorted (name, value) pairs
Overrides == {<<>>, <<<<"enable_mock_fallback", "False">>>>}
\* hash(str(sorted(kwargs.items()))): equal for equal arguments
hash(kwargs) == IF kwargs = <<>> THEN 0 ELSE 1
\* a factory's configuration: the keys create_llm reads
FactoryConfigs ==
  [provider : {<<"deepseek">>}, environment : {<<"testing">>},
   enable_mock_fallback : BOOLEAN]

\* LLMFactory._generate_cache_key: f"{provider}_{environment}_{hash(...)}"
_generate_cache_key(provider, environment, kwargs) ==
  provider \o environment \o <<hash(kwargs)>>

CacheKeys ==
  {_generate_cache_key(p, e, k) : p \in Providers, e \in Environments, k \in Overrides}

NoInstance == [id |-> 0, kind |-> "none"]

\* _create_new_llm that never falls back
_create_new_llm_no_fallback(config, provider, fails, id) ==
  IF provider = <<"mock">>
  THEN [raised |-> FALSE, failed |-> FALSE, instance |-> [id |-> id, kind |-> "mock"]]
  ELSE IF provider \in RealProviders /\ ~fails
  THEN [raised |-> FALSE, failed |-> FALSE, instance |-> [id |-> id, kind |-> "real"]]
  ELSE [raised |-> TRUE, failed |-> TRUE, instance |-> NoInstance]

\* LLMFactory._create_new_llm: the client of the provider; when that raises
\* (fails, or a provider that is not supported) a MockLLM if the factory's
\* enable_mock_fallback is set, else the exception
_create_new_llm(config, provider, fails, id) ==
  IF provider = <<"mock">>
  THEN [raised |-> FALSE, failed |-> FALSE, instance |-> [id |-> id, kind |-> "mock"]]
  ELSE IF provider \in RealProviders /\ ~fails
  THEN [raised |-> FALSE, failed |-> FALSE, instance |-> [id |-> id, kind |-> "real"]]
  ELSE IF config.enable_mock_fallback
  THEN [raised |-> FALSE, failed |-> TRUE, instance |-> [id |-> id, kind |-> "mock"]]
  ELSE [raised |-> TRUE, failed |-> TRUE, instance |-> NoInstance]

\* create_llm that constructs a client on every call
create_llm_uncached(cache, config, provider, environment, kwargs, fails, id) ==
  LET provider_name == IF provider = <<>> THEN config.provider ELSE provider
      env == IF environment = <<>> THEN config.environment ELSE environment
      cache_key == _generate_cache_key(provider_name, env, kwargs)
      r == _create_new_llm(config, provider_name, fails, id)
  IN [instances |-> IF r.raised THEN cache ELSE [cache EXCEPT ![cache_key] = r.instance],
      cache_key |-> cache_key, attempted |-> TRUE, failed |-> r.failed,
      raised |-> r.raised, result |-> r.instance]

\* LLMFactory.create_llm(provider, environment, **kwargs) of a factory with
\* this config; <<>> stands for None
create_llm(cache, config, provider, environment, kwargs, fails, id) ==
  LET provider_name == IF provider = <<>> THEN config.provider ELSE provider
      env == IF environment = <<>> THEN config.environment ELSE environment
      cache_key == _generate_cache_key(provider_name, env, kwargs)
      r == _create_new_llm(config, provider_name, fails, id)
  IN IF cache[cache_key] # NoInstance
     THEN [instances |-> cache, cache_key |-> cache_key, attempted |-> FALSE,
           failed |-> FALSE, raised |-> FALSE, result |-> cache[cache_key]]
     ELSE [instances |-> IF r.raised THEN cache ELSE [cache EXCEPT ![cache_key] = r.instance],
           cache_key |-> cache_key, attempted |-> TRUE, failed |-> r.failed,
           raised |-> r.raised, result |-> r.instance]

\* LLMFactory.clear_cache
clear_cache(cache) == [k \in CacheKeys |-> NoInstance]

NoFactoryLog ==
  [op |-> "none", config |-> [provider |-> <<"mock">>, environment |-> <<"testing">>, enable_mock_fallback |-> TRUE],
   provider |-> <<>>, cache_key |-> <<>>, attempted |-> FALSE, failed |-> FALSE,
   raised |-> FALSE, result |-> NoInstance, fallback_before |-> NoInstance]

FactoryInit ==
  /\ instances = [k \in CacheKeys |-> NoInstance]
  /\ llm_made = 0
  /\ fallbacks = [k \in CacheKeys |-> NoInstance]
  /\ factoryLog = NoFactoryLog

\* ------------------------------------- RefineEditor on command strings
\* A command string is a sequence of tokens: a character, or a keyword with
\* the numbers written after it ("DELETE 0,1", "ADD{", "MERGE 0&1",
\* "RELABEL 0 "). A text or tag is a sequence of characters.
Ch(c) == [t |-> "char", c |-> c, idx |-> <<>>]
Kw(t, idx) == [t |-> t, c |-> "", idx |-> idx]
Chars(text) == [k \in 1..Len(text) |-> Ch(text[k])]
Unchars(tokens) == [k \in 1..Len(tokens) |-> tokens[k].c]

\* sorted(set(delete))
RECURSIVE sorted_set(_)
sorted_set(S) ==
  IF S = {} THEN <<>>
  ELSE LET least == CHOOSE x \in S : \A y \in S : x <= y
       IN <<least>> \o sorted_set(S \ {least})

\* text.replace("}", "}}")
RECURSIVE replace_brace(_)
replace_brace(text) ==
  IF text = <<>> THEN <<>>
  ELSE (IF Head(text) = "}" THEN <<"}", "}">> ELSE <<Head(text)>>)
       \o replace_brace(Tail(text))

\* format_command's loop over merge: each pair sorted, the first of each kept
RECURSIVE unique_pairs(_)
unique_pairs(merge) ==
  IF merge = <<>> THEN <<>>
  ELSE LET rest == unique_pairs(SubSeq(merge, 1, Len(merge) - 1))
           last == merge[Len(merge)]
           pair == <<Min2(last[1], last[2]), Max2(last[1], last[2])>>
       IN IF pair \in Range(rest) THEN rest ELSE Append(rest, pair)

\* format_command's loop over relabel: the first tag of each index kept
RECURSIVE unique_relabels(_)
unique_relabels(relabel) ==
  IF relabel = <<>> THEN <<>>
  ELSE LET rest == unique_relabels(SubSeq(relabel, 1, Len(relabel) - 1))
           last == relabel[Len(relabel)]
       IN IF \E k \in 1..Len(rest) : rest[k][1] = last[1] THEN rest
          ELSE Append(rest, last)

\* format_command: f"ADD{{{safe_text}}}"
add_command(text) ==
  <<Kw("ADD{", <<>>)>> \o Chars(replace_brace(text)) \o <<Ch("}")>>

\* format_command: the RELABEL command, the tag quoted if it holds a space
relabel_command(idx, tag) ==
  <<Kw("RELABEL ", <<idx>>)>>
  \o (IF " " \in Range(tag) THEN <<Ch("\"")>> \o Chars(tag) \o <<Ch("\"")>>
      ELSE Chars(tag))

\* "; ".join(commands)
RECURSIVE join_commands(_)
join_commands(commands) ==
  IF commands = <<>> THEN <<>>
  ELSE IF Len(commands) = 1 THEN commands[1]
  ELSE commands[1] \o <<Ch(";"), Ch(" ")>> \o join_commands(Tail(commands))

\* RefineEditor.format_command(delete, add, merge, relabel)
format_command(delete, add, merge, relabel) ==
  LET pairs == unique_pairs(merge)
      relabels == unique_relabels(relabel)
      adds == SelectSeq(add, LAMBDA text : text # <<>>)
  IN join_commands(
       (IF delete = <<>> THEN <<>>
        ELSE << <<Kw("DELETE ", sorted_set(Range(delete)))>> >>)
       \o [k \in 1..Len(adds) |-> add_command(adds[k])]
       \o [k \in 1..Len(pairs) |-> <<Kw("MERGE ", pairs[k])>>]
       \o [k \in 1..Len(relabels) |-> relabel_command(relabels[k][1], relabels[k][2])])

\* str.strip()
RECURSIVE strip(_)
strip(s) ==
  IF s = <<>> THEN <<>>
  ELSE IF Head(s) = Ch(" ") THEN strip(Tail(s))
  ELSE IF s[Len(s)] = Ch(" ") THEN strip(SubSeq(s, 1, Len(s) - 1))
  ELSE s

\* cmd.split(";")
RECURSIVE split(_)
split(s) ==
  IF \A k \in 1..Len(s) : s[k] # Ch(";") THEN <<s>>
  ELSE LET k == CHOOSE i \in 1..Len(s) :
                  s[i] = Ch(";") /\ \A j \in 1..(i - 1) : s[j] # Ch(";")
       IN <<SubSeq(s, 1, k - 1)>> \o split(SubSeq(s, k + 1, Len(s)))

\* RefineEditor._parse_delete_enhanced: "DELETE" and an index list, nothing else
_parse_delete_enhanced(segment) ==
  IF Len(segment) # 1 \/ segment[1].idx = <<>> \/ HasDuplicates(segment[1].idx)
  THEN EmptyDelta
  ELSE [EmptyDelta EXCEPT !.delete = segment[1].idx]

\* RefineEditor._parse_add_enhanced: ^ADD\s*\{(.*)\}$, the group stripped
_parse_add_enhanced(segment) ==
  IF Len(segment) < 2 \/ segment[Len(segment)] # Ch("}") THEN EmptyDelta
  ELSE LET text == strip(SubSeq(segment, 2, Len(segment) - 1))
       IN IF text = <<>> THEN EmptyDelta
          ELSE [EmptyDelta EXCEPT !.add = <<Unchars(text)>>]

\* RefineEditor._parse_merge_enhanced: the pair after MERGE, found anywhere
_parse_merge_enhanced(segment) ==
  IF segment[1].idx[1] = segment[1].idx[2] THEN EmptyDelta
  ELSE [EmptyDelta EXCEPT !.merge = <<segment[1].idx>>]

\* RefineEditor._parse_relabel_enhanced: ^RELABEL\s+(\d+)\s+(.+)$, the tag
\* stripped and a pair of enclosing quotes removed
_parse_relabel_enhanced(segment) ==
  LET new_tag == strip(Tail(segment))
      n == Len(new_tag)
      unquoted == IF n >= 1 /\ new_tag[1] = Ch("\"") /\ new_tag[n] = Ch("\"")
                  THEN SubSeq(new_tag, 2, n - 1)
                  ELSE new_tag
  IN IF new_tag = <<>> \/ unquoted = <<>> THEN EmptyDelta
     ELSE [EmptyDelta EXCEPT !.relabel = << <<segment[1].idx[1], Unchars(unquoted)>> >>]

\* RefineEditor._parse_segment: by the keyword the segment starts with
_parse_segment(segment) ==
  CASE segment[1].t = "DELETE " -> _parse_delete_enhanced(segment)
    [] segment[1].t = "ADD{" -> _parse_add_enhanced(segment)
    [] segment[1].t = "MERGE " -> _parse_merge_enhanced(segment)
    [] segment[1].t = "RELABEL " -> _parse_relabel_enhanced(segment)
    [] OTHER -> EmptyDelta

\* RefineEditor.parse_command on a command string: the stripped non-blank
\* segments between ";", each parsed and added to the delta
RECURSIVE parse_segments(_)
parse_segments(segments) ==
  IF segments = <<>> THEN EmptyDelta
  ELSE LET rest == parse_segments(SubSeq(segments, 1, Len(segments) - 1))
           segment == strip(segments[Len(segments)])
           d == IF segment = <<>> THEN EmptyDelta ELSE _parse_segment(segment)
       IN [delete |-> rest.delete \o d.delete,
           add |-> rest.add \o d.add,
           merge |-> rest.merge \o d.merge,
           relabel |-> rest.relabel \o d.relabel]

parse_command_string(cmd) ==
  IF strip(cmd) = <<>> THEN EmptyDelta ELSE parse_segments(split(strip(cmd)))

\* the deltas formatted: texts and tags with and without ";", "}" and blanks
RoundTripTexts == {<<"a">>, <<"a", "}", "b">>, <<"a", ";", "b">>, <<"a", " ", "b">>}
RoundTripTags == {<<"t">>, <<"t", " ", "u">>}
DeleteLists == UNION {[1..n -> 0..MaxIdx] : n \in 0..MaxList}
PairLists ==
  UNION {[1..n -> {pr \in (0..MaxIdx) \X (0..MaxIdx) : pr[1] # pr[2]}] : n \in 0..MaxList}
Deltas ==
  [delete : DeleteLists,
   add : {<<>>} \cup {<<text>> : text \in RoundTripTexts},
   merge : PairLists,
   relabel : {<<>>} \cup {<< <<idx, tag>> >> : idx \in 0..MaxIdx, tag \in RoundTripTags}]

NoRoundTrip == [done |-> FALSE, delta |-> EmptyDelta, cmd |-> <<>>, parsed |-> EmptyDelta]

\* ------------------------------------------ prompts/template_manager.py
\* A version string as its parts between dots: "1.0.p", or "2.0"; <<>> is no
\* version given. A content is a number, 0 where no version is stored.
VersionStrings == {<<1, 0, p>> : p \in 0..MaxPatch} \cup {<<2, 0>>}
Contents == 1..MaxContent

\* TemplateManager.create_template: the initial version "1.0.0"
Template(content) ==
  [versions |-> [v \in VersionStrings |-> IF v = <<1, 0, 0>> THEN content ELSE 0],
   current_version |-> <<1, 0, 0>>]

\* Template.add_version: the version given, or the current one with its
\* patch number raised, "1.0.0" if the current one has not three parts
add_version(t, content, version) ==
  LET current == t.current_version
      new_version == IF version # <<>> THEN version
                     ELSE IF Len(current) = 3
                     THEN <<current[1], current[2], current[3] + 1>>
                     ELSE <<1, 0, 0>>
  IN [template |-> [versions |-> [t.versions EXCEPT ![new_version] = content],
                    current_version |-> new_version],
      version |-> new_version]

\* TemplateManager.update_template of a template that exists
update_template(t, content, version) == add_version(t, content, version)

NoTemplateLog ==
  [op |-> "none", before |-> Template(1), version |-> <<>>, returned |-> <<>>]

TemplateInit ==
  /\ template = Template(1)
  /\ templateLog = NoTemplateLog

\* ------------------------------------- memory/persistence.py: backups
\* _cleanup_old_backups' days_to_keep
DaysToKeep == 7

\* f"{basename}.backup_{timestamp}" with the file's own modification time,
\* which shutil.copy2 keeps; timestamp is the text after ".backup_"
BackupFile(timestamp, mtime) == [timestamp |-> timestamp, mtime |-> mtime]

\* filename.endswith(".backup_"): nothing follows the marker
endswith_backup(f) == f.timestamp = <<>>

\* MemoryPersistence._cleanup_old_backups at time t
_cleanup_old_backups(files, t) ==
  {f \in files : ~(endswith_backup(f) /\ f.mtime < t - DaysToKeep)}

\* MemoryPersistence._create_backup at time t of a file modified at mtime: a
\* backup of the same name is replaced
_create_backup(files, mtime, t) ==
  _cleanup_old_backups(
    {f \in files : f.timestamp # <<t>>} \cup {BackupFile(<<t>>, mtime)}, t)

NoBackupLog == [op |-> "none", at |-> 0, overwrote |-> FALSE]

BackupsInit ==
  /\ backup_files = {}
  /\ file_mtime = 0
  /\ backupLog = NoBackupLog

\* no call of transition yet
NoMachineLog ==
  [op |-> "none", raised |-> FALSE, at |-> 0, before |-> StateMachine(0)]

\* the tools around the agent, none of them used
ToolsInit ==
  /\ machine = StateMachine(0)
  /\ machineLog = NoMachineLog
  /\ FactoryInit
  /\ round_trip = NoRoundTrip
  /\ BackupsInit
  /\ TemplateInit
  /\ round_trip = NoRoundTrip
  /\ BackupsInit
  /\ TemplateInit

\* ------------------------------------------------------------------- Init
\* A bank MemoryBank(max_entries) just constructed, no agent yet, no file.
Init ==
  /\ entries = <<>>
  /\ max_entries \in 1..MaxCap
  /\ nextId = 1
  /\ lastOp = [op |-> "init"]
  /\ pc = "unbuilt"
  /\ task_input = ""
  /\ max_iterations = 0
  /\ iteration = 0
  /\ traces = <<>>
  /\ retrieved = <<>>
  /\ result = NoResult
  /\ allThink = TRUE
  /\ entries0 = <<>>
  /\ target = Absent
  /\ tmp = Absent
  /\ latest_backup = Absent
  /\ savePc = "idle"
  /\ saveOld = Absent
  /\ saveNew = Absent
  /\ ioRet = [op |-> "none", raised |-> FALSE]
  /\ ioCalls = 0
  /\ LlmInit(CircuitBreakerConfig(1, 1, 1, FailureWindow))
  /\ KeysInit
  /\ ToolsInit

\* the bank is its owner's to call: it is not handed to an agent, and no save
\* of it is under way
Quiet == pc = "unbuilt" /\ savePc = "idle"

\* -------------------------------------------- the owner's calls on the bank
\* bank.add(MemoryEntry(...)), with the current time or an older timestamp
Add ==
  /\ Quiet
  /\ nextId < MaxId
  /\ LET r == BankAdd(entries, max_entries,
                     MemoryEntry(nextId, <<"direct">>, "t", nextId))
     IN /\ entries' = r.entries
        /\ lastOp' = [op |-> "add", id |-> nextId, raised |-> r.raised]
  /\ nextId' = nextId + 1
  /\ UNCHANGED <<max_entries, agentVars, fileVars>>
  /\ UNCHANGED <<llmVars, keyVars, toolVars>>

IndexLists(n) ==
  {<<>>} \cup {<<i>> : i \in -1..n} \cup {<<i, j>> : i \in -1..n, j \in -1..n}

\* bank.delete(indices)
Delete ==
  /\ Quiet
  /\ \E indices \in IndexLists(Len(entries)) :
       LET r == BankDelete(entries, indices)
       IN /\ entries' = r.entries
          /\ lastOp' = [op |-> "delete", indices |-> indices,
                        raised |-> r.raised]
  /\ UNCHANGED <<max_entries, nextId, agentVars, fileVars>>
  /\ UNCHANGED <<llmVars, keyVars, toolVars>>

\* bank.merge(idx1, idx2)
Merge ==
  /\ Quiet
  /\ nextId <= MaxId
  /\ \E idx1 \in -1..Len(entries), idx2 \in -1..Len(entries) :
       LET r == BankMerge(entries, idx1, idx2, nextId)
       IN /\ entries' = r.entries
          /\ nextId' = IF r.entries # entries THEN nextId + 1 ELSE nextId
          /\ lastOp' = [op |-> "merge", idx1 |-> idx1, idx2 |-> idx2,
                        raised |-> r.raised]
  /\ UNCHANGED <<max_entries, agentVars, fileVars>>
  /\ UNCHANGED <<llmVars, keyVars, toolVars>>

RelabelTags == {"r", ""}

\* bank.relabel(idx, new_tag)
Relabel ==
  /\ Quiet
  /\ \E idx \in -1..Len(entries), tag \in RelabelTags :
       LET r == BankRelabel(entries, idx, tag)
       IN /\ entries' = r.entries
          /\ lastOp' = [op |-> "relabel", idx |-> idx, tag |-> tag,
                        raised |-> r.raised]
  /\ UNCHANGED <<max_entries, nextId, agentVars, fileVars>>
  /\ UNCHANGED <<llmVars, keyVars, toolVars>>

\* ------------------------------------------------------------ the agent
\* ReMemAgent.__init__(llm, memory_bank, persist_path, max_iterations): with
\* the owner's bank or with memory_bank=None
NewAgent ==
  /\ pc = "unbuilt"
  /\ savePc = "idle"
  /\ \E given \in BOOLEAN, mi \in 1..MaxIter :
       LET mb == IF given THEN SomeBank(entries, max_entries) ELSE NoBank
           M == BankOrNew(mb).bank
           r == Load(FileState(target, tmp, latest_backup), M)
       IN /\ entries' = r.bank.entries
          /\ max_entries' = r.bank.max_entries
          /\ max_iterations' = mi
          /\ lastOp' = [op |-> "new_agent", given |-> given,
                        raised |-> r.raised]
  /\ pc' = "idle"
  /\ UNCHANGED <<nextId, task_input, iteration, traces, retrieved, result,
                 allThink, entries0, fileVars>>
  /\ UNCHANGED <<llmVars, keyVars, toolVars>>

TaskInputs == {"", "task"}

\* run_task(task_input) is called: lines 64-68
RunTask ==
  /\ pc \in {"idle", "returned", "raised"}
  /\ savePc = "idle"
  /\ nextId < MaxId
  /\ \E t \in TaskInputs : task_input' = t
  /\ pc' = "loop"
  /\ iteration' = 0
  /\ traces' = <<>>
  /\ retrieved' = <<>>
  /\ result' = NoResult
  /\ allThink' = TRUE
  /\ entries0' = entries
  /\ lastOp' = [op |-> "run_task"]
  /\ UNCHANGED <<entries, max_entries, nextId, max_iterations, fileVars>>
  /\ UNCHANGED <<llmVars, keyVars, toolVars>>

\* one loop iteration, lines 74-75: retrieve, then the text of the results
IterRetrieve ==
  /\ pc = "loop"
  /\ iteration < max_iterations
  /\ \E reply \in ShortRetrievalReplies(entries) :
       retrieved' = retrieve(entries, retrieval_k, reply)
  /\ pc' = IF ToTextRaises(retrieved') THEN "raised" ELSE "select"
  /\ lastOp' = [op |-> "retrieve"]
  /\ UNCHANGED <<entries, max_entries, nextId, task_input, max_iterations,
                 iteration, traces, result, allThink, entries0, fileVars>>
  /\ UNCHANGED <<llmVars, keyVars, toolVars>>

\* the branch of run_task an action name takes
Branch(action) ==
  IF action \in {"think", "refine", "act"} THEN action ELSE "invalid"

\* lines 81-84: the LLM selects think
IterThink ==
  /\ pc = "select"
  /\ \E sel \in SelectReplies, reply \in TextReplies :
       /\ Branch(select_action(sel)) = "think"
       /\ traces' = Append(traces, Think(task_input, reply))
  /\ iteration' = iteration + 1
  /\ pc' = "loop"
  /\ lastOp' = [op |-> "think"]
  /\ UNCHANGED <<entries, max_entries, nextId, task_input, max_iterations,
                 retrieved, result, allThink, entries0, fileVars>>
  /\ UNCHANGED <<llmVars, keyVars, toolVars>>

\* the segments and the commands the LLM may answer a Refine prompt with
Segments(n) ==
  {[op |-> "DELETE", indices |-> l] : l \in IndexLists(n) \ {<<>>}}
  \cup {[op |-> "ADD", text |-> t] : t \in {"", "a"}}
  \cup {[op |-> "MERGE", idx1 |-> i, idx2 |-> j] : i \in 0..n, j \in 0..n}
  \cup {[op |-> "RELABEL", idx |-> i, tag |-> "r"] : i \in 0..n}
  \cup {[op |-> "DELETE?"], [op |-> "OTHER"]}
ShortCommands(n) == {<<>>} \cup {<<a>> : a \in Segments(n)}
Commands(n) ==
  ShortCommands(n) \cup {<<a, b>> : a \in Segments(n), b \in Segments(n)}
ShortRefineReplies(n) ==
  {[kind |-> "raise"]} \cup {[kind |-> "text", cmd |-> c] : c \in ShortCommands(n)}
RefineReplies(n) ==
  {[kind |-> "raise"]} \cup {[kind |-> "text", cmd |-> c] : c \in Commands(n)}

\* lines 86-92: the LLM selects refine
IterRefine ==
  /\ pc = "select"
  /\ \E sel \in SelectReplies, reply \in ShortRefineReplies(Len(entries)) :
       LET r == Refine(task_input, entries, reply)
           st == apply_delta(BankState(entries, nextId), max_entries, r.delta)
       IN /\ Branch(select_action(sel)) = "refine"
          /\ nextId + Len(r.delta.add) + Len(r.delta.merge) <= MaxId + 1
          /\ traces' = IF r.raised THEN traces ELSE Append(traces, r.trace)
          /\ entries' = IF r.raised THEN entries ELSE st.entries
          /\ nextId' = IF r.raised THEN nextId ELSE st.nextId
          /\ pc' = IF r.raised THEN "raised" ELSE "loop"
          /\ lastOp' = [op |-> "refine"]
  /\ iteration' = iteration + 1
  /\ allThink' = FALSE
  /\ UNCHANGED <<max_entries, task_input, max_iterations, retrieved, result,
                 entries0, fileVars>>
  /\ UNCHANGED <<llmVars, keyVars, toolVars>>

\* _act, _add_new_memory and persistence.save, then the return of status
ActAndReturn(status, n, tr, sel) ==
  \E reply \in TextReplies, failAt \in {"none", "write"} :
    LET a == add_new_memory(BankState(entries, nextId), max_entries, task_input)
        sv == SaveAll(FileState(target, tmp, latest_backup),
                      SaveDoc(a.st.entries, max_entries), failAt)
    IN /\ entries' = a.st.entries
       /\ nextId' = a.st.nextId
       /\ pc' = IF a.raised \/ sv.raised THEN "raised" ELSE "returned"
       /\ result' = IF a.raised \/ sv.raised THEN NoResult
                    ELSE TaskResult(status, Act(task_input, reply), n, a.st.entries,
                                    retrieved, tr)
       /\ target' = IF a.raised THEN target ELSE sv.fs.target
       /\ tmp' = IF a.raised THEN tmp ELSE sv.fs.tmp
       /\ latest_backup' = IF a.raised THEN latest_backup ELSE sv.fs.latest_backup
       /\ ioRet' = IF a.raised THEN ioRet
                   ELSE [op |-> "save", ret |-> sv.ret, raised |-> sv.raised]
       /\ traces' = tr
       /\ lastOp' = [op |-> "act", sel |-> sel]
       /\ UNCHANGED <<max_entries, task_input, max_iterations, iteration,
                      retrieved, entries0, savePc, saveOld, saveNew, ioCalls>>

\* lines 94-131: the LLM selects act, or something _select_action turns into act
IterAct ==
  /\ pc = "select"
  /\ \E sel \in SelectReplies :
       /\ Branch(select_action(sel)) \in {"act", "invalid"}
       /\ IF Branch(select_action(sel)) = "act"
          THEN ActAndReturn("completed", iteration + 1, traces, sel)
          ELSE ActAndReturn("forced", iteration + 1,
                            Append(traces, "invalid action"), sel)
  /\ allThink' = FALSE
  /\ UNCHANGED <<llmVars, keyVars, toolVars>>

\* lines 133-147: the loop ended without an Act
ForcedAct ==
  /\ pc = "loop"
  /\ iteration >= max_iterations
  /\ ActAndReturn("max_iterations_exceeded", max_iterations, traces, "none")
  /\ UNCHANGED allThink
  /\ UNCHANGED <<llmVars, keyVars, toolVars>>

\* the first check of _refine a reply fails: "none" when the command is applied
FailedCheck(task, es, reply) ==
  IF task = "" THEN "input"
  ELSE IF es = <<>> THEN "bank"
  ELSE IF reply.kind = "raise" THEN "llm"
  ELSE IF reply.cmd = <<>> THEN "empty"
  ELSE IF \E k \in 1..Len(reply.cmd) : reply.cmd[k].op = "OTHER" THEN "syntax"
  ELSE LET d == parse_command(reply.cmd)
           bad(i) == i < 0 \/ i >= Len(es)
       IN IF \/ \E k \in 1..Len(d.delete) : bad(d.delete[k])
             \/ \E k \in 1..Len(d.merge) :
                  bad(d.merge[k][1]) \/ bad(d.merge[k][2]) \/ d.merge[k][1] = d.merge[k][2]
             \/ \E k \in 1..Len(d.relabel) : bad(d.relabel[k][1])
          THEN "index"
          ELSE "none"

\* the Refine step of run_task called on its own, as the unit tests call
\* _refine and _apply_delta: lines 87-91
DirectRefine ==
  /\ Quiet
  /\ lastOp.op # "refine"
  /\ \E task \in TaskInputs, reply \in RefineReplies(Len(entries)) :
       LET r == Refine(task, entries, reply)
           st == apply_delta(BankState(entries, nextId), max_entries, r.delta)
       IN /\ task = "" => reply.kind = "raise"
          /\ nextId + Len(r.delta.add) <= MaxId + 1
          /\ entries' = IF r.raised THEN entries ELSE st.entries
          /\ nextId' = IF r.raised THEN nextId ELSE st.nextId
          /\ lastOp' = [op |-> "refine", failed |-> FailedCheck(task, entries, reply),
                        delta |-> IF reply.kind = "raise" THEN EmptyDelta
                                  ELSE parse_command(reply.cmd),
                        trace |-> r.trace, raised |-> r.raised]
  /\ UNCHANGED <<max_entries, agentVars, fileVars>>
  /\ UNCHANGED <<llmVars, keyVars, toolVars>>

\* The agent and the bank it owns
Next ==
  \/ Add
  \/ NewAgent
  \/ RunTask
  \/ IterRetrieve
  \/ IterThink
  \/ IterRefine
  \/ IterAct
  \/ ForcedAct

Spec == Init /\ [][Next]_vars

\* The bank under the calls of its owner
NextBank ==
  \/ Add
  \/ Delete
  \/ Merge
  \/ Relabel

SpecBank == Init /\ [][NextBank]_vars

\* Refine commands applied to a bank
NextRefine ==
  \/ Add
  \/ DirectRefine

SpecRefine == Init /\ [][NextRefine]_vars

\* ------------------------------------- MemoryPersistence called by the owner
Files == FileState(target, tmp, latest_backup)

\* save(bank) is called: the existence test of the target and the data built
SaveBegin ==
  /\ Quiet
  /\ ioCalls < MaxCalls
  /\ ioCalls' = ioCalls + 1
  /\ savePc' = "backup"
  /\ saveOld' = target
  /\ saveNew' = SaveDoc(entries, max_entries)
  /\ lastOp' = [op |-> "save"]
  /\ UNCHANGED <<entries, max_entries, nextId, agentVars, target, tmp,
                 latest_backup, ioRet>>
  /\ UNCHANGED <<llmVars, keyVars, toolVars>>

\* one step of save has run: fs are the files afterwards, next the step to come
SaveStep(fs, next) ==
  /\ target' = fs.target
  /\ tmp' = fs.tmp
  /\ latest_backup' = fs.latest_backup
  /\ savePc' = next
  /\ UNCHANGED <<bankVars, agentVars, saveOld, saveNew, ioCalls>>

\* _create_backup, when the target exists; its failure is caught there
SaveBackup ==
  /\ savePc = "backup"
  /\ \E ok \in BOOLEAN : SaveStep(StepBackup(Files, ok), "open")
  /\ UNCHANGED ioRet
  /\ UNCHANGED <<llmVars, keyVars, toolVars>>

SaveOpen ==
  /\ savePc = "open"
  /\ SaveStep(StepOpen(Files), "write")
  /\ UNCHANGED ioRet
  /\ UNCHANGED <<llmVars, keyVars, toolVars>>

SaveWrite ==
  /\ savePc = "write"
  /\ SaveStep(StepWrite(Files, saveNew), "replace")
  /\ UNCHANGED ioRet
  /\ UNCHANGED <<llmVars, keyVars, toolVars>>

SaveReplace ==
  /\ savePc = "replace"
  /\ SaveStep(StepReplace(Files), "idle")
  /\ ioRet' = [op |-> "save", ret |-> TRUE, raised |-> FALSE]
  /\ UNCHANGED <<llmVars, keyVars, toolVars>>

\* the step save is at raises (the disk is full, the path is not writable)
SaveFail ==
  /\ savePc \in {"open", "write", "replace"}
  /\ SaveStep(Files, "idle")
  /\ ioRet' = [op |-> "save"] @@ SaveExcept
  /\ UNCHANGED <<llmVars, keyVars, toolVars>>

\* the process dies during save: the files stay, the bank of the next process
\* is a new one
Crash ==
  /\ savePc # "idle"
  /\ savePc' = "idle"
  /\ entries' = <<>>
  /\ lastOp' = [op |-> "crash"]
  /\ ioRet' = [op |-> "crash", raised |-> FALSE]
  /\ UNCHANGED <<max_entries, nextId, agentVars, target, tmp, latest_backup,
                 saveOld, saveNew, ioCalls>>
  /\ UNCHANGED <<llmVars, keyVars, toolVars>>

\* an entry of a file another bank wrote; its id is none the owner's bank gave
FileEntry(k) == MemoryEntry(0 - k, <<"file">>, "t", 0)

\* what the file holds after something else than save wrote it: no file, a
\* file that cannot be read or parsed, the document of another bank, or the
\* old document with a byte changed
ExternalContents(old) ==
  {Absent, Garbage, NonDict, Unreadable}
  \cup {Doc(v, 1, <<FileEntry(1)>>, TRUE) : v \in {FORMAT_VERSION, "2.0.0"}}
  \cup (IF old.kind = "doc" THEN {[old EXCEPT !.checksum_ok = FALSE]} ELSE {})

ExternalWrite ==
  /\ Quiet
  /\ ioCalls < MaxCalls
  /\ ioCalls' = ioCalls + 1
  /\ \E c \in ExternalContents(target) : target' = c
  /\ lastOp' = [op |-> "external"]
  /\ saveOld' = Absent
  /\ saveNew' = Absent
  /\ ioRet' = [op |-> "none", raised |-> FALSE]
  /\ UNCHANGED <<entries, max_entries, nextId, agentVars, tmp, latest_backup,
                 savePc>>
  /\ UNCHANGED <<llmVars, keyVars, toolVars>>

\* bank = persistence.load(bank), or bank = persistence.load()
LoadCall ==
  /\ Quiet
  /\ ioCalls < MaxCalls
  /\ ioCalls' = ioCalls + 1
  /\ \E given \in BOOLEAN :
       LET mb == IF given THEN SomeBank(entries, max_entries) ELSE NoBank
           r == Load(Files, mb)
       IN /\ entries' = IF r.raised THEN entries ELSE r.bank.entries
          /\ max_entries' = IF r.raised THEN max_entries ELSE r.bank.max_entries
          /\ ioRet' = [op |-> "load", given |-> given, same |-> r.same,
                       supplied |-> r.supplied, raised |-> r.raised]
  /\ lastOp' = [op |-> "load"]
  /\ saveOld' = Absent
  /\ saveNew' = Absent
  /\ UNCHANGED <<nextId, agentVars, target, tmp, latest_backup, savePc>>
  /\ UNCHANGED <<llmVars, keyVars, toolVars>>

\* A bank saved to and loaded from its file
NextPersist ==
  \/ Add
  \/ SaveBegin
  \/ SaveBackup
  \/ SaveOpen
  \/ SaveWrite
  \/ SaveReplace
  \/ SaveFail
  \/ Crash
  \/ ExternalWrite
  \/ LoadCall

SpecPersist == Init /\ [][NextPersist]_vars

\* ------------------------------------------- MemoryBank.add up to capacity
\* a bank of the tests' capacity, or of a small one
InitCapacity ==
  /\ entries = <<>>
  /\ max_entries \in (1..MaxCap) \cup {TestMaxEntries}
  /\ nextId = 1
  /\ lastOp = [op |-> "init"]
  /\ pc = "unbuilt"
  /\ task_input = ""
  /\ max_iterations = 0
  /\ iteration = 0
  /\ traces = <<>>
  /\ retrieved = <<>>
  /\ result = NoResult
  /\ allThink = TRUE
  /\ entries0 = <<>>
  /\ target = Absent
  /\ tmp = Absent
  /\ latest_backup = Absent
  /\ savePc = "idle"
  /\ saveOld = Absent
  /\ saveNew = Absent
  /\ ioRet = [op |-> "none", raised |-> FALSE]
  /\ ioCalls = 0
  /\ LlmInit(CircuitBreakerConfig(1, 1, 1, FailureWindow))
  /\ KeysInit
  /\ ToolsInit

\* add(entry) with an entry whose timestamp the caller set: older than every
\* other (0) or the newest; entries0 is the list the call found
AddStamped ==
  /\ Quiet
  /\ nextId <= MaxAdds
  /\ \E ts \in {0, nextId} :
       LET r == BankAdd(entries, max_entries,
                        MemoryEntry(nextId, <<"direct">>, "t", ts))
       IN /\ entries' = r.entries
          /\ lastOp' = [op |-> "add", id |-> nextId, raised |-> r.raised]
  /\ entries0' = entries
  /\ nextId' = nextId + 1
  /\ UNCHANGED <<max_entries, pc, task_input, max_iterations, iteration, traces,
                 retrieved, result, allThink, fileVars>>
  /\ UNCHANGED <<llmVars, keyVars, toolVars>>

NextCapacity == AddStamped
SpecCapacity == InitCapacity /\ [][NextCapacity]_vars

\* ------------------------------- a circuit breaker and a retry manager
\* the bank, the agent and the file, untouched
MemoryIdle ==
  /\ entries = <<>>
  /\ max_entries = DefaultMaxEntries
  /\ nextId = 1
  /\ lastOp = [op |-> "init"]
  /\ pc = "unbuilt"
  /\ task_input = ""
  /\ max_iterations = 0
  /\ iteration = 0
  /\ traces = <<>>
  /\ retrieved = <<>>
  /\ result = NoResult
  /\ allThink = TRUE
  /\ entries0 = <<>>
  /\ target = Absent
  /\ tmp = Absent
  /\ latest_backup = Absent
  /\ savePc = "idle"
  /\ saveOld = Absent
  /\ saveNew = Absent
  /\ ioRet = [op |-> "none", raised |-> FALSE]
  /\ ioCalls = 0

\* reset_timeout shorter and longer than failure_window
ResetTimeouts == {1, FailureWindow + 1}

\* a breaker built from a config, the clock past the epoch
InitBreaker ==
  /\ MemoryIdle
  /\ KeysInit
  /\ ToolsInit
  /\ \E failure_threshold \in 1..MaxThreshold, reset_timeout \in ResetTimeouts,
        half_open_max_requests \in 1..MaxHalfOpen :
       LlmInit(CircuitBreakerConfig(failure_threshold, reset_timeout,
                                    half_open_max_requests, FailureWindow))

\* time passes
Tick ==
  /\ now < FailureWindow + 1 + MaxTicks
  /\ now' = now + 1
  /\ UNCHANGED <<memoryVars, keyVars, toolVars, breaker, reset_threads, breakerLog, retry_run>>

\* a reset_circuit thread wakes from time.sleep(reset_timeout), at the time it
\* asked for or later
ResetCircuit ==
  /\ \E wake \in reset_threads :
       /\ now >= wake
       /\ reset_threads' = reset_threads \ {wake}
  /\ breaker' = reset_circuit(breaker)
  /\ breakerLog' =
       IF breaker.state = "open"
       THEN [breakerLog EXCEPT !.event = "reset_circuit",
                               !.half_open_allowed = 0,
                               !.half_open_successes = 0]
       ELSE [breakerLog EXCEPT !.event = "reset_circuit"]
  /\ UNCHANGED <<memoryVars, keyVars, toolVars, now, retry_run>>

\* one call of the breaker's wrapper, by the caller directly or by the retry
\* loop, around a function that does `outcome`; the history counts the failures
\* that each came within failure_window of the one before since the breaker
\* was last Closed anew, and what a Half-Open breaker has let through
ThroughBreaker(outcome, via) ==
  LET w == Wrapper(breaker, now, outcome)
      failed == w.invoked /\ ~outcome.ok
      closes == breaker.state = "half_open" /\ w.breaker.state = "closed"
      in_window == breakerLog.failures_in_window > 0
                   /\ now - breaker.last_failure_time <= breaker.config.failure_window
      half_open == breaker.state = "half_open"
  IN /\ breaker' = w.breaker
     /\ reset_threads' = IF w.scheduled
                         THEN reset_threads \cup {now + breaker.config.reset_timeout}
                         ELSE reset_threads
     /\ breakerLog' =
          [event |-> "call", before |-> breaker.state, invoked |-> w.invoked,
           failed |-> failed, via |-> via,
           failures_in_window |->
             IF closes THEN 0
             ELSE IF ~failed THEN breakerLog.failures_in_window
             ELSE IF in_window THEN breakerLog.failures_in_window + 1
             ELSE 1,
           half_open_allowed |->
             breakerLog.half_open_allowed
               + (IF half_open /\ w.invoked THEN 1 ELSE 0),
           half_open_successes |->
             breakerLog.half_open_successes
               + (IF half_open /\ w.invoked /\ outcome.ok THEN 1 ELSE 0),
           calls |-> breakerLog.calls + 1]

\* the decorated function is called, not from a retry loop
BreakerCall ==
  /\ retry_run.pc # "loop"
  /\ breakerLog.calls < MaxBreakerCalls
  /\ \E outcome \in Outcomes : ThroughBreaker(outcome, "direct")
  /\ UNCHANGED <<memoryVars, keyVars, toolVars, now, retry_run>>

\* RetryManager.retry(fn) is called; fn is a plain function, or (resilient_call)
\* the breaker's wrapper around one
RetryStart(wrapped) ==
  /\ retry_run.pc # "loop"
  /\ \E max_retries \in 0..MaxRetries,
        classes \in {{"Exception"}, {"ValueError"}} :
       retry_run' = [NoRetryRun EXCEPT !.pc = "loop",
                                       !.config = RetryConfig(max_retries, classes),
                                       !.wrapped = wrapped]
  /\ UNCHANGED <<memoryVars, keyVars, toolVars, now, breaker, reset_threads, breakerLog>>

\* one pass of the for loop of retry: fn is invoked and returns, or raises and
\* should_retry decides; the loop ends with the range, and then
\* `raise last_exception`.  The sleep before the next pass is time passing.
RetryAttempt ==
  /\ retry_run.pc = "loop"
  /\ retry_run.wrapped => breakerLog.calls < MaxBreakerCalls
  /\ \E outcome \in Outcomes :
       LET did == IF retry_run.wrapped
                  THEN Wrapper(breaker, now, outcome).did ELSE outcome
           again == should_retry(retry_run.config, did.exc, retry_run.attempt)
           more == retry_run.attempt + 1 <= retry_run.config.max_retries
       IN /\ retry_run' =
               IF did.ok
               THEN [retry_run EXCEPT !.pc = "returned", !.invocations = @ + 1]
               ELSE [retry_run EXCEPT
                       !.invocations = @ + 1,
                       !.last_exception = did.exc,
                       !.last_thrown = did.exc,
                       !.attempt = IF again /\ more THEN @ + 1 ELSE @,
                       !.pc = IF again /\ more THEN "loop" ELSE "raised",
                       !.raised = IF again /\ more THEN NoException ELSE did.exc]
          /\ IF retry_run.wrapped
             THEN ThroughBreaker(outcome, "retry")
             ELSE UNCHANGED <<breaker, reset_threads, breakerLog>>
  /\ UNCHANGED <<memoryVars, keyVars, toolVars, now>>

\* retry(fn) of a plain function, and of a function decorated by resilient_call
RetryPlain == RetryStart(FALSE)
RetryResilient == RetryStart(TRUE)

\* A function behind a circuit breaker, called directly and through retry
NextBreaker ==
  \/ Tick
  \/ ResetCircuit
  \/ BreakerCall
  \/ RetryResilient
  \/ RetryAttempt

SpecBreaker == InitBreaker /\ [][NextBreaker]_vars

\* A plain function called through RetryManager.retry
InitRetry ==
  /\ MemoryIdle
  /\ LlmInit(CircuitBreakerConfig(1, 1, 1, FailureWindow))
  /\ KeysInit
  /\ ToolsInit

NextRetry ==
  \/ Tick
  \/ RetryPlain
  \/ RetryAttempt

SpecRetry == InitRetry /\ [][NextRetry]_vars

\* ------------------------------------------------- an API key manager
GracePeriods == (0 - 1)..MaxGrace
InitKeys ==
  /\ MemoryIdle
  /\ LlmInit(CircuitBreakerConfig(1, 1, 1, FailureWindow))
  /\ KeysInit
  /\ ToolsInit

\* add_key(provider, key_value, environment, expires_in)
AddKey ==
  /\ keys_made < MaxKeys
  /\ \E expires_in \in 0..MaxGrace :
       keys_cache' = add_key(keys_cache, keys_made + 1, now, expires_in)
  /\ keys_made' = keys_made + 1
  /\ UNCHANGED <<memoryVars, llmVars, toolVars, expire_threads, rotations>>

\* rotate_key(old_key_id, new_key_value, grace_period) of a key that was not
\* rotated before; the id generated for the new key is fresh, or the old key's
\* when that one was generated in this same millisecond
RotateKey ==
  \E old_key_id \in KeyIds, grace_period \in GracePeriods, same_id \in BOOLEAN :
    LET new_key_id == IF same_id THEN old_key_id ELSE keys_made + 1
        r == rotate_key(keys_cache, old_key_id, new_key_id, now, grace_period)
    IN /\ ~rotations[old_key_id].done
       /\ same_id => keys_cache[old_key_id].created_at = now
       /\ ~same_id => keys_made < MaxKeys
       /\ keys_cache' = r.cache
       /\ keys_made' = IF r.generated /\ ~same_id THEN keys_made + 1 ELSE keys_made
       /\ expire_threads' =
            IF r.scheduled
            THEN expire_threads
                   \cup {[key_id |-> old_key_id,
                          wake |-> ExpiryWake(now, grace_period)]}
            ELSE expire_threads
       /\ rotations' =
            IF r.ret # 0
            THEN [rotations EXCEPT ![old_key_id] =
                    [at |-> now, grace_period |-> grace_period, done |-> TRUE]]
            ELSE rotations
       /\ UNCHANGED <<memoryVars, llmVars, toolVars>>

\* an _expire_old_key thread wakes from time.sleep(grace_period), at the time
\* it asked for or later
ExpireOldKey ==
  /\ \E th \in expire_threads :
       /\ now >= th.wake
       /\ keys_cache' = expire_old_key(keys_cache, th.key_id)
       /\ expire_threads' = expire_threads \ {th}
  /\ UNCHANGED <<memoryVars, llmVars, toolVars, keys_made, rotations>>

\* get_key(key_id, update_usage, check_status)
GetKey ==
  /\ \E key_id \in KeyIds, update_usage \in BOOLEAN,
        check_status \in {"none", "true", "false"} :
       keys_cache' = get_key(keys_cache, key_id, now, update_usage,
                             check_status).cache
  /\ UNCHANGED <<memoryVars, llmVars, toolVars, keys_made, expire_threads, rotations>>

\* delete_key(key_id)
DeleteKey ==
  /\ \E key_id \in KeyIds :
       /\ keys_cache[key_id] # NoKey
       /\ keys_cache' = delete_key(keys_cache, key_id)
  /\ UNCHANGED <<memoryVars, llmVars, toolVars, keys_made, expire_threads, rotations>>

\* The keys of a manager added, rotated, looked up and deleted as time passes
NextKeys ==
  \/ Tick
  \/ AddKey
  \/ RotateKey
  \/ ExpireOldKey
  \/ GetKey
  \/ DeleteKey

SpecKeys == InitKeys /\ [][NextKeys]_vars

\* update_key_status(key_id, status): an operator revokes a key, or makes it
\* Active again
UpdateKeyStatus ==
  /\ \E key_id \in KeyIds, status \in {"active", "revoked"} :
       /\ keys_cache[key_id] # NoKey
       /\ keys_cache' = update_key_status(keys_cache, key_id, status)
  /\ UNCHANGED <<memoryVars, llmVars, toolVars, keys_made, expire_threads, rotations>>

\* The keys of a manager whose statuses are also set by hand
NextKeyStatus ==
  \/ Tick
  \/ AddKey
  \/ RotateKey
  \/ ExpireOldKey
  \/ GetKey
  \/ DeleteKey
  \/ UpdateKeyStatus

SpecKeyStatus == InitKeys /\ [][NextKeyStatus]_vars

\* ------------------------------------------------------ a state machine
InitMachine ==
  /\ MemoryIdle
  /\ LlmInit(CircuitBreakerConfig(1, 1, 1, FailureWindow))
  /\ KeysInit
  /\ \E max_iter \in 0..MaxMachineIter :
       machine = StateMachine(max_iter)
  /\ machineLog = NoMachineLog
  /\ FactoryInit
  /\ round_trip = NoRoundTrip
  /\ BackupsInit
  /\ TemplateInit

\* the whole timeout passes, or a second more
Elapse ==
  /\ \E seconds \in {TerminationTimeout, TerminationTimeout + 1} :
       /\ now + seconds <= FailureWindow + 1 + MaxSeconds
       /\ now' = now + seconds
  /\ UNCHANGED <<memoryVars, keyVars, toolVars, breaker, reset_threads,
                 breakerLog, retry_run>>

\* initialize(task_input, memory_bank)
MachineInitialize ==
  /\ machine' = initialize(machine, now)
  /\ machineLog' = NoMachineLog
  /\ UNCHANGED <<memoryVars, llmVars, keyVars, factoryVars, round_trip, templateVars, backupVars>>

\* transition(action)
MachineTransition ==
  /\ \E action \in {"think", "refine", "act", "other"} :
       LET r == transition(machine, action, now)
       IN /\ machine' = r.machine
          /\ machineLog' = [op |-> "transition", raised |-> r.raised,
                            at |-> now, before |-> machine]
  /\ UNCHANGED <<memoryVars, llmVars, keyVars, factoryVars, round_trip, templateVars, backupVars>>

\* reset()
MachineReset ==
  /\ machine' = reset(machine)
  /\ machineLog' = NoMachineLog
  /\ UNCHANGED <<memoryVars, llmVars, keyVars, factoryVars, round_trip, templateVars, backupVars>>

\* A state machine initialized, stepped and reset as time passes
NextMachine ==
  \/ Elapse
  \/ MachineInitialize
  \/ MachineTransition
  \/ MachineReset

SpecMachine == InitMachine /\ [][NextMachine]_vars

\* ------------------------------------------------------ LLM factories
\* create_llm on a factory of any configuration; a real provider's client
\* can be constructed or not
CreateLlm ==
  /\ llm_made < MaxInstances
  /\ \E config \in FactoryConfigs, provider \in Providers \cup {<<>>},
        environment \in Environments \cup {<<>>}, kwargs \in Overrides,
        fails \in BOOLEAN :
       LET r == create_llm(instances, config, provider, environment, kwargs,
                           fails, llm_made + 1)
           substituted == r.attempted /\ r.failed /\ ~r.raised
       IN /\ instances' = r.instances
          /\ llm_made' = IF r.attempted /\ ~r.raised THEN llm_made + 1 ELSE llm_made
          /\ fallbacks' = IF substituted
                          THEN [fallbacks EXCEPT ![r.cache_key] = r.result]
                          ELSE fallbacks
          /\ factoryLog' = [op |-> "create_llm", config |-> config,
                            provider |-> IF provider = <<>> THEN config.provider ELSE provider,
                            cache_key |-> r.cache_key, attempted |-> r.attempted,
                            failed |-> r.failed, raised |-> r.raised,
                            result |-> r.result,
                            fallback_before |-> fallbacks[r.cache_key]]
  /\ UNCHANGED <<memoryVars, llmVars, keyVars, machineVars, round_trip, templateVars, backupVars>>

\* clear_cache()
ClearCache ==
  /\ instances' = clear_cache(instances)
  /\ fallbacks' = [k \in CacheKeys |-> NoInstance]
  /\ factoryLog' = NoFactoryLog
  /\ UNCHANGED <<memoryVars, llmVars, keyVars, machineVars, round_trip, llm_made, templateVars, backupVars>>

\* Factories of every configuration creating clients from the shared cache
NextFactory ==
  \/ CreateLlm
  \/ ClearCache

SpecFactory == Init /\ [][NextFactory]_vars

\* ------------------------------------------- formatting and parsing back
\* format_command(**delta) once, then parse_command of the string
FormatAndParse ==
  /\ ~round_trip.done
  /\ \E delta \in Deltas :
       LET cmd == format_command(delta.delete, delta.add, delta.merge, delta.relabel)
       IN round_trip' = [done |-> TRUE, delta |-> delta, cmd |-> cmd,
                         parsed |-> parse_command_string(cmd)]
  /\ UNCHANGED <<memoryVars, llmVars, keyVars, machineVars, factoryVars, templateVars, backupVars>>

NextFormat == FormatAndParse

SpecFormat == Init /\ [][NextFormat]_vars

\* --------------------------------------------------- a template updated
\* update_template(template_id, content, author, description, version)
UpdateTemplate ==
  /\ \E content \in Contents, version \in VersionStrings \cup {<<>>} :
       /\ version = <<>> /\ Len(template.current_version) = 3
            => template.current_version[3] < MaxPatch
       /\ LET r == update_template(template, content, version)
          IN /\ template' = r.template
             /\ templateLog' = [op |-> "update_template", before |-> template,
                                version |-> version, returned |-> r.version]
  /\ UNCHANGED <<memoryVars, llmVars, keyVars, machineVars, factoryVars, round_trip, backupVars>>

NextTemplate == UpdateTemplate

SpecTemplate == Init /\ [][NextTemplate]_vars

\* ------------------------------------------------ saves over the days
\* a day passes, or more days than backups are kept
PassDays ==
  /\ \E days \in {1, DaysToKeep + 1} :
       /\ now + days <= FailureWindow + 1 + MaxDays
       /\ now' = now + days
  /\ backupLog' = NoBackupLog
  /\ UNCHANGED <<memoryVars, keyVars, machineVars, factoryVars, round_trip,
                 templateVars, backup_files, file_mtime, breaker,
                 reset_threads, breakerLog, retry_run>>

\* MemoryPersistence.save: the backup of the file that is there, then the
\* file written
SaveWithBackup ==
  /\ backup_files' = IF file_mtime # 0
                     THEN _create_backup(backup_files, file_mtime, now)
                     ELSE backup_files
  /\ file_mtime' = now
  /\ backupLog' = [op |-> "save", at |-> now, overwrote |-> file_mtime # 0]
  /\ UNCHANGED <<memoryVars, llmVars, keyVars, machineVars, factoryVars,
                 round_trip, templateVars>>

NextBackups ==
  \/ PassDays
  \/ SaveWithBackup

SpecBackups == Init /\ [][NextBackups]_vars

\* --------------------------------------------- MemoryBank.retrieve called
\* the "results" lists of at most MaxItems items
RECURSIVE ItemLists(_, _)
ItemLists(es, n) ==
  IF n = 0 THEN {<<>>}
  ELSE LET shorter == ItemLists(es, n - 1)
       IN shorter \cup {Append(l, a) : l \in {m \in shorter : Len(m) = n - 1},
                                       a \in Items(es)}

\* what the LLM may do at a retrieval call: raise, answer text that holds no
\* JSON, JSON without "results", "results" whose use raises TypeError (a
\* number, an item whose index is a string), or a list of items
RetrievalReplies(es) ==
  {[kind |-> "raise"], [kind |-> "unparsable"], [kind |-> "noresults"],
   [kind |-> "typeerror"]}
  \cup {[kind |-> "results", items |-> l] : l \in ItemLists(es, MaxItems)}

\* bank.retrieve(llm, query, k) called by the owner of the bank
Retrieve ==
  /\ Quiet
  /\ lastOp.op # "bank.retrieve"
  /\ \E k \in 0..(MaxCap + 1), reply \in RetrievalReplies(entries) :
       /\ retrieved' = retrieve(entries, k, reply)
       /\ lastOp' = [op |-> "bank.retrieve", k |-> k, reply |-> reply]
  /\ UNCHANGED <<entries, max_entries, nextId, pc, task_input, max_iterations,
                 iteration, traces, result, allThink, entries0, fileVars>>
  /\ UNCHANGED <<llmVars, keyVars, toolVars>>

\* A bank and the retrievals of its owner
NextRetrieve ==
  \/ Add
  \/ Retrieve

SpecRetrieve == Init /\ [][NextRetrieve]_vars

\* ================================================================ properties
\* C1: run_task returns a result record whatever the task, the bank and the
\* LLM do: no exception escapes it.
C1_RunTaskNeverRaises == pc # "raised"

\* C2: when the LLM answers think at every action selection, run_task ends
\* after max_iterations iterations with status max_iterations_exceeded,
\* iterations = max_iterations, and the bank one entry larger than it was.
C2_AlwaysThink ==
  (allThink /\ pc \in {"returned", "raised"}) =>
    /\ pc = "returned"
    /\ result.status = "max_iterations_exceeded"
    /\ result.iterations = max_iterations
    /\ Len(traces) = max_iterations
    /\ Len(entries) = Len(entries0) + 1

\* C3: after every operation that inserts entries (add, load into a supplied
\* bank) the bank holds at most max_entries entries.
C3_WithinCapacity ==
  (lastOp.op = "add" \/ (lastOp.op = "load" /\ ioRet.given)) =>
    Len(entries) <= max_entries

\* C4: delete(indices) is all-or-nothing, repeated indices included: it raises
\* and leaves the entries as they were, or it removes exactly the entries at
\* the listed positions.
C4_DeleteAllOrNothing ==
  [][lastOp'.op = "delete" =>
       LET idxs == lastOp'.indices
           listed == {idxs[k] : k \in 1..Len(idxs)}
           keep == {k \in 1..Len(entries) : (k - 1) \notin listed}
           nth(j) == CHOOSE k \in keep : Cardinality({m \in keep : m < k}) = j - 1
       IN \/ lastOp'.raised /\ entries' = entries
          \/ /\ ~lastOp'.raised
             /\ Len(entries') = Cardinality(keep)
             /\ \A j \in 1..Len(entries') : entries'[j] = entries[nth(j)]]_vars

\* C5: merge(idx1, idx2) of two distinct in-range indices, in either order,
\* does not raise and makes the bank one entry smaller: the merged entry is
\* where the entry at idx1 was, the entry at idx2 is gone, every other entry
\* is kept.
C5_MergeEitherOrder ==
  [][(/\ lastOp'.op = "merge"
      /\ InRange(entries, lastOp'.idx1)
      /\ InRange(entries, lastOp'.idx2)
      /\ lastOp'.idx1 # lastOp'.idx2) =>
       LET i1 == lastOp'.idx1
           i2 == lastOp'.idx2
           place == IF i2 < i1 THEN i1 - 1 ELSE i1
       IN /\ ~lastOp'.raised
          /\ Len(entries') = Len(entries) - 1
          /\ At(entries', place).x = At(entries, i1).x \o At(entries, i2).x
          /\ At(entries, i2).id \notin Ids(entries')
          /\ \A k \in 0..(Len(entries) - 1) :
               k \notin {i1, i2} => At(entries, k) \in Range(entries')]_vars

\* C6: a relabel of a Refine delta acts on the entry that held its index
\* before the delta: when that entry is not deleted by the delta and is in
\* the bank afterwards, it carries the new tag.
C6_IndicesOfTheOriginalBank ==
  [][(lastOp'.op = "refine" /\ lastOp'.failed = "none") =>
       LET d == lastOp'.delta
           deleted(i) == \E k \in 1..Len(d.delete) : d.delete[k] = i
       IN \A k \in 1..Len(d.relabel) :
            ~deleted(d.relabel[k][1]) =>
              \A j \in 1..Len(entries') :
                entries'[j].id = At(entries, d.relabel[k][1]).id
                  => entries'[j].tag = d.relabel[k][2]]_vars

\* C7: a Refine command that fails a check (it is empty or a segment starts
\* with no statement keyword; an index of the parsed delta is out of range)
\* leaves the entries as they were, does not raise, and its trace entry
\* names the check that failed.
C7_FailedRefineIsNoOp ==
  [][(lastOp'.op = "refine" /\ lastOp'.failed \in {"empty", "syntax", "index"}) =>
       /\ entries' = entries
       /\ ~lastOp'.raised
       /\ lastOp'.trace =
            (CASE lastOp'.failed = "empty" -> "Refine: empty command"
               [] lastOp'.failed = "syntax" -> "Refine: format invalid"
               [] lastOp'.failed = "index" -> "Refine: index invalid")]_vars

\* a command that adds an entry and names an index out of range was refused
C7_Witness ==
  /\ lastOp.op = "refine"
  /\ lastOp.failed = "index"
  /\ lastOp.delta.add # <<>>
  /\ entries # <<>>

\* C8: from the call of save on, a failure or a crash at any step included,
\* the target holds what it held when save was called (nothing, when it was
\* absent) or the whole new document, and never a document written in part.
C8_AtomicSave ==
  /\ target.kind # "partial"
  /\ lastOp.op \in {"save", "crash"} => target \in {saveOld, saveNew}

\* the process died after the new document was written and before the
\* rename, over a target that held an older document
C8_Witness ==
  /\ lastOp.op = "crash"
  /\ tmp = saveNew
  /\ saveOld.kind = "doc"
  /\ saveNew # saveOld
  /\ target = saveOld

\* C9: load(bank) keeps every entry the supplied bank held before the call.
C9_LoadKeepsEntries ==
  [][(lastOp'.op = "load" /\ ioRet'.given) =>
       \A k \in 1..Len(entries) : entries[k] \in Range(ioRet'.supplied.entries)]_vars

\* C10: load and save never raise: load returns a bank, save a boolean.
C10_LoadSaveNeverRaise ==
  /\ ioRet.op \in {"load", "save"} => ~ioRet.raised
  /\ ioRet.op = "save" => ioRet.ret \in BOOLEAN
  /\ lastOp.op = "load" =>
       /\ max_entries \in Nat
       /\ \A k \in 1..Len(entries) :
            DOMAIN entries[k] = {"id", "x", "tag", "ts"}

\* load was called on a file that holds JSON that is no object
C10_Witness ==
  /\ lastOp.op = "load"
  /\ ioRet.op = "load"
  /\ target.kind = "nondict"

\* C11: when the LLM call raises or its reply cannot be parsed into results,
\* retrieve returns the first min(k, N) entries in storage order, each with
\* relevance_score 0.5.
C11_FallbackRetrieval ==
  (lastOp.op = "bank.retrieve" /\ lastOp.reply.kind # "results") =>
    /\ Len(retrieved) = Min2(lastOp.k, Len(entries))
    /\ \A i \in 1..Len(retrieved) :
         /\ retrieved[i].memory_entry = entries[i]
         /\ retrieved[i].relevance_score = 50

\* the LLM raised at a retrieval of two from a bank of three
C11_Witness ==
  /\ lastOp.op = "bank.retrieve"
  /\ lastOp.reply.kind = "raise"
  /\ lastOp.k = 2
  /\ Len(entries) = 3
  /\ Len(retrieved) = 2

\* the reply reports one score for every entry of the bank
C12_PerEntryScores ==
  /\ lastOp.op = "bank.retrieve"
  /\ lastOp.reply.kind = "results"
  /\ Len(lastOp.reply.items) = Len(entries)
  /\ \A i \in 0..(Len(entries) - 1) :
       \E j \in 1..Len(lastOp.reply.items) : lastOp.reply.items[j].index = i

C13_InvalidReplyForced ==
  (pc = "returned" /\ lastOp.op = "act" /\ lastOp.sel = "other"
     /\ result.iterations = 1)
  => /\ result.status = "forced"
     /\ "invalid action" \in Range(result.traces)

\* C13 (amended): a reply that is none of think, refine and act is taken as act:
\* run_task returns from that iteration with status "completed", counts the
\* iteration, and no trace entry says "invalid action"
C13_InvalidReplyActs ==
  (pc = "returned" /\ lastOp.op = "act" /\ lastOp.sel = "other")
  => /\ result.status = "completed"
     /\ result.iterations = iteration + 1
     /\ result.traces = traces
     /\ "invalid action" \notin Range(result.traces)

\* run_task has returned from its first iteration after an invalid reply
C13_Witness ==
  /\ pc = "returned"
  /\ lastOp.op = "act"
  /\ lastOp.sel = "other"
  /\ result.iterations = 1

\* C14: add on a bank at capacity removes the oldest fifth of the entries, at
\* least one, and then appends the new entry (10 of 10 become 9)
C14_PruneFifthAtCapacity ==
  (lastOp.op = "add" /\ ~lastOp.raised /\ Len(entries0) >= max_entries)
  => LET delete_count == Max2(1, Len(entries0) \div 5)
     IN /\ Len(entries) = Len(entries0) - delete_count + 1
        /\ SubSeq(entries, 1, Len(entries) - 1)
             = SubSeq(SortByTs(entries0), delete_count + 1, Len(entries0))

\* C15: when the storage file does not exist, load(bank) returns the very bank
\* it was given, unchanged, also when that bank is empty
C15_AbsentFileReturnsGivenBank ==
  [][(lastOp'.op = "load" /\ ioRet'.given /\ target.kind = "absent")
       => /\ ioRet'.same
          /\ entries' = entries
          /\ max_entries' = max_entries]_vars

\* C16: after failure_threshold failures, each within failure_window of the one
\* before, the breaker is Open; a call made while it is Open is rejected and the
\* function is not invoked, a retry of resilient_call's loop included
C16_OpenRejects ==
  /\ (breakerLog.event = "call" /\ breakerLog.failed
        /\ breakerLog.failures_in_window >= breaker.config.failure_threshold)
     => breaker.state = "open"
  /\ (breakerLog.event = "call" /\ breakerLog.before = "open")
     => /\ ~breakerLog.invoked
        /\ (breakerLog.via = "retry" /\ retry_run.invocations >= 1)
           => retry_run.last_thrown = Rejected

\* the retry loop has come back to a breaker that is Open, and was rejected again
C16_Witness ==
  /\ breakerLog.event = "call"
  /\ breakerLog.via = "retry"
  /\ breakerLog.before = "open"
  /\ breaker.failure_count >= breaker.config.failure_threshold
  /\ retry_run.invocations >= 2

\* C17: a Half-Open breaker becomes Closed only once half_open_max_requests calls
\* have succeeded since it became Half-Open
C17_ClosesAfterHalfOpenSuccesses ==
  [][(breaker.state = "half_open" /\ breaker'.state = "closed")
       => breakerLog'.half_open_successes
            >= breaker.config.half_open_max_requests]_vars

\* C18: a Half-Open breaker lets at most half_open_max_requests calls through to
\* the function, whatever they do
C18_HalfOpenLimit ==
  breakerLog.half_open_allowed <= breaker.config.half_open_max_requests

\* C19: retry(fn) invokes fn at most max_retries + 1 times, raises the exception
\* of the last invocation when none returned, and should_retry refuses every
\* attempt numbered max_retries or more
C19_BoundedRetries ==
  /\ retry_run.invocations <= retry_run.config.max_retries + 1
  /\ retry_run.pc = "raised"
     => /\ retry_run.raised # NoException
        /\ retry_run.raised = retry_run.last_thrown
  /\ \A e \in FuncExceptions \cup {Rejected}, attempt \in 0..(MaxRetries + 1) :
       attempt >= retry_run.config.max_retries
       => ~should_retry(retry_run.config, e, attempt)

\* fn was invoked max_retries + 1 times, more than once, and never returned
C19_Witness ==
  /\ retry_run.pc = "raised"
  /\ retry_run.config.max_retries >= 1
  /\ retry_run.invocations = retry_run.config.max_retries + 1

\* C20 (as stated): a key rotated away from is PendingRefresh; with a
\* grace_period of 0 or less no transition is scheduled for it, and with a
\* positive one it becomes Expired only once grace_period has elapsed
C20_ExpiredOnlyAfterGrace ==
  \A k \in KeyIds :
    (rotations[k].done /\ keys_cache[k] # NoKey)
    => /\ keys_cache[k].status \in {"pending_refresh", "expired"}
       /\ keys_cache[k].status = "expired"
          => /\ rotations[k].grace_period > 0
             /\ now >= rotations[k].at + rotations[k].grace_period
       /\ rotations[k].grace_period <= 0
          => \A th \in expire_threads : th.key_id # k

\* C20 (amended): a key rotated away from is PendingRefresh; no transition is
\* scheduled when grace_period is 0 or less; it is Expired only once a positive
\* grace_period has elapsed, or once its own expires_at has passed
C20_ExpiredAfterGraceOrExpiry ==
  \A k \in KeyIds :
    (rotations[k].done /\ keys_cache[k] # NoKey)
    => /\ keys_cache[k].status \in {"pending_refresh", "expired"}
       /\ keys_cache[k].status = "expired"
          => \/ /\ rotations[k].grace_period > 0
                /\ now >= rotations[k].at + rotations[k].grace_period
             \/ /\ keys_cache[k].expires_at # 0
                /\ now > keys_cache[k].expires_at
       /\ rotations[k].grace_period <= 0
          => \A th \in expire_threads : th.key_id # k

\* a key that never expires of itself was rotated away from with a positive
\* grace_period and its thread has expired it
C20_Witness ==
  \E k \in KeyIds :
    /\ rotations[k].done
    /\ rotations[k].grace_period > 0
    /\ keys_cache[k].status = "expired"
    /\ keys_cache[k].expires_at = 0

\* C21: when the old key has an expiry, the key rotate_key creates expires after
\* the old key's remaining lifetime, floored at zero: it has an expiry, and that
\* expiry is not later than the old key's (or than now, for an old key already
\* past its expiry)
C21_NewKeyKeepsExpiry ==
  [][\A old_key_id \in KeyIds :
       (rotations'[old_key_id].done /\ ~rotations[old_key_id].done
          /\ keys_cache[old_key_id].expires_at # 0)
       => LET old_key == keys_cache[old_key_id]
              new_key == keys_cache'[keys_made']
          IN /\ new_key.expires_at # 0
             /\ new_key.expires_at = now + Max2(0, old_key.expires_at - now)
             /\ new_key.expires_at <= Max2(old_key.expires_at, now)]_vars

\* C22: get_key with check_status left at its default returns no key whose
\* status is Revoked, Expired or PendingRefresh, whether update_usage is set or not
C22_NonActiveKeyNotReturned ==
  \A key_id \in KeyIds, update_usage \in BOOLEAN :
    keys_cache[key_id].status \in {"revoked", "expired", "pending_refresh"}
    => ~get_key(keys_cache, key_id, now, update_usage, "none").found

\* C28: the thread rotate_key started expires only a key that is still
\* PendingRefresh: a key whose status was set by hand meanwhile is left as it is
C28_TimerLeavesChangedKey ==
  [][\A th \in expire_threads :
       (th \notin expire_threads'
          /\ keys_cache[th.key_id].status # "pending_refresh")
       => keys_cache'[th.key_id] = keys_cache[th.key_id]]_vars

\* C23: transition raises before initialize; once Act was executed,
\* max_iterations is reached, 30 seconds have passed or the last five history
\* records are the same, transition raises and changes nothing of the machine
C23_TerminatedMachineRefuses ==
  LET m == machineLog.before
      n == Len(m.history)
      terminated ==
        \/ \E k \in 2..n : m.history[k] = "act"
        \/ m.iteration >= m.max_iterations
        \/ machineLog.at - m.start_time > TerminationTimeout
        \/ n >= LoopLength /\ \A k \in (n - LoopLength + 2)..n : m.history[k] = m.history[k - 1]
  IN machineLog.op = "transition"
     => /\ ~m.initialized => machineLog.raised
        /\ (m.initialized /\ terminated) => machineLog.raised
        /\ machineLog.raised => machine = m

\* transition was refused for five identical actions alone
C23_Witness ==
  /\ machineLog.op = "transition"
  /\ machineLog.raised
  /\ machineLog.before.initialized
  /\ machineLog.before.iteration = LoopLength
  /\ machineLog.before.iteration < machineLog.before.max_iterations
  /\ machineLog.before.history[LoopLength + 1] = "think"
  /\ machineLog.at - machineLog.before.start_time <= TerminationTimeout

\* C24: when the construction of a real provider's client fails, create_llm
\* returns a Mock if the factory's enable_mock_fallback is true and raises
\* the error if it is false
C24_FallbackToMock ==
  (factoryLog.op = "create_llm" /\ factoryLog.provider \in RealProviders
     /\ factoryLog.attempted /\ factoryLog.failed)
  => IF factoryLog.config.enable_mock_fallback
     THEN ~factoryLog.raised /\ factoryLog.result.kind = "mock"
     ELSE factoryLog.raised /\ factoryLog.result = NoInstance

\* a failed construction was replaced by a Mock
C24_Witness ==
  /\ factoryLog.op = "create_llm"
  /\ factoryLog.provider \in RealProviders
  /\ factoryLog.attempted /\ factoryLog.failed
  /\ factoryLog.config.enable_mock_fallback
  /\ factoryLog.result.kind = "mock"

\* C30: after a Mock was substituted for a failing real provider, each later
\* create_llm with the same provider, environment and overrides, on any
\* factory, returns that Mock without constructing, until clear_cache
C30_CachedMockReturned ==
  (factoryLog.op = "create_llm" /\ factoryLog.provider \in RealProviders
     /\ factoryLog.fallback_before # NoInstance)
  => /\ ~factoryLog.attempted
     /\ ~factoryLog.raised
     /\ factoryLog.result = factoryLog.fallback_before

\* a factory without fallback was handed the Mock another call had cached
C30_Witness ==
  /\ factoryLog.op = "create_llm"
  /\ factoryLog.provider \in RealProviders
  /\ factoryLog.fallback_before # NoInstance
  /\ ~factoryLog.config.enable_mock_fallback
  /\ factoryLog.result = factoryLog.fallback_before
  /\ factoryLog.result.kind = "mock"

\* C25: parse_command(format_command(**delta)) gives the delta back, up to
\* the removal of repeated indices and pairs: the same indices to delete,
\* the same texts to add, the same pairs to merge, the first tag of each index
C25_RoundTrip ==
  round_trip.done
  => /\ Range(round_trip.parsed.delete) = Range(round_trip.delta.delete)
     /\ round_trip.parsed.add = round_trip.delta.add
     /\ {{pr[1], pr[2]} : pr \in Range(round_trip.parsed.merge)}
          = {{pr[1], pr[2]} : pr \in Range(round_trip.delta.merge)}
     /\ round_trip.parsed.relabel = unique_relabels(round_trip.delta.relabel)

\* C26: each update_template, with or without a version string, stores a
\* version that was not there, makes it the current one and leaves the
\* content of every version stored before as it was
C26_AppendOnlyVersions ==
  templateLog.op = "update_template"
  => /\ templateLog.before.versions[template.current_version] = 0
     /\ template.versions[template.current_version] # 0
     /\ template.current_version = templateLog.returned
     /\ \A v \in VersionStrings :
          templateLog.before.versions[v] # 0
          => template.versions[v] = templateLog.before.versions[v]

\* C27: when a save that overwrote the file has returned, the backups
\* directory holds no backup that is more than 7 days old, by the time in its
\* name or by its modification time
C27_OldBackupsPruned ==
  (backupLog.op = "save" /\ backupLog.overwrote)
  => \A f \in backup_files :
       \/ backupLog.at - f.timestamp[1] <= DaysToKeep
       \/ backupLog.at - f.mtime <= DaysToKeep

\* C29: add puts the new entry last and leaves the entries that remain in
\* the order they had before, whatever their timestamps
C29_AddKeepsOrder ==
  (lastOp.op = "add" /\ ~lastOp.raised)
  => /\ entries # <<>>
     /\ entries[Len(entries)].id = lastOp.id
     /\ \A i, j \in 1..(Len(entries) - 1) :
          i < j => \E a, b \in 1..Len(entries0) :
                     a < b /\ entries0[a] = entries[i] /\ entries0[b] = entries[j]

====
